---- MODULE Spec2Model ----
(***************************************************************************)
(* Model of the soil-moisture analysis code of seepiii/agrisat:            *)
(*   - the edge function `serve` handler (smap-analysis/index.ts),         *)
(*   - processHDF5File, getRegionalSoilMoisture, getRegionSeed and         *)
(*     applyRegionalCharacteristics of the same file.                      *)
(* Strings are sequences of character codes, so that toLowerCase,          *)
(* includes and the character-code sums are computed as the code does.     *)
(* Numbers are fixed-point integers in units of 10^-6 wrapped in a record  *)
(* that also represents the JavaScript NaN.                                *)
(***************************************************************************)
EXTENDS Integers, Sequences, FiniteSets, TLC

VARIABLES
    pc,        \* serve handler: per connection, "idle" | "fetching" | "done"
    req,       \* serve handler: per connection, the request being served
    trace,     \* serve handler: per connection, the stages executed so far
    reply,     \* serve handler: per connection, how the backend fetch settled
    resp,      \* serve handler: per connection, the Response returned
    adj,       \* applyRegionalCharacteristics: last call (input and output)
    fb,        \* getRegionalSoilMoisture: the calls made so far, in order
    ext,       \* processHDF5File: last call (input and output)
    demo,      \* getDemoAnalysis: last call (input and output)
    page       \* analysis page: the region catalog and the page's React state

vars == <<pc, req, trace, reply, resp, adj, fb, ext, demo, page>>

-----------------------------------------------------------------------------
(* Bounds                                                                  *)

NumConns == 2

\* applyRegionalCharacteristics is tried on the values k * 0.025, k <= MaxValueSteps
MaxValueSteps == 44

\* the number of getRegionalSoilMoisture calls followed
MaxCalls == 3

\* processHDF5File is tried on buffers with up to MaxPrefix bytes before the
\* pattern and up to MaxWords data words
MaxPrefix == 1
MaxWords == 2

-----------------------------------------------------------------------------
(* Strings as sequences of character codes                                 *)

Min(a, b) == IF a <= b THEN a ELSE b
Max(a, b) == IF a >= b THEN a ELSE b

\* String.prototype.toLowerCase on ASCII letters
ToLowerChar(c) == IF c >= 65 /\ c <= 90 THEN c + 32 ELSE c
\* the string used as it was passed, with no toLowerCase()
ToLower_keeps_case(s) == s

ToLower(s) == [i \in 1..Len(s) |-> ToLowerChar(s[i])]

\* String.prototype.includes
Includes(s, sub) ==
    \E k \in 0..(Len(s) - Len(sub)) :
        \A j \in 1..Len(sub) : s[k + j] = sub[j]

\* s.split('').reduce((acc, char) => acc + char.charCodeAt(0), 0)
RECURSIVE CharSum(_)
CharSum(s) == IF s = <<>> THEN 0 ELSE s[1] + CharSum(Tail(s))

Concat3(a, b, c) == a \o b \o c

-----------------------------------------------------------------------------
(* String literals of the code, and the input strings of the model        *)

\* 'thailand'
kw_thailand == <<116, 104, 97, 105, 108, 97, 110, 100>>
\* 'central thailand'
kw_central_thailand == <<99, 101, 110, 116, 114, 97, 108, 32, 116, 104, 97, 105, 108, 97, 110, 100>>
\* 'bangkok'
kw_bangkok == <<98, 97, 110, 103, 107, 111, 107>>
\* 'chao phraya'
kw_chao_phraya == <<99, 104, 97, 111, 32, 112, 104, 114, 97, 121, 97>>
\* 'vietnam'
kw_vietnam == <<118, 105, 101, 116, 110, 97, 109>>
\* 'mekong delta'
kw_mekong_delta == <<109, 101, 107, 111, 110, 103, 32, 100, 101, 108, 116, 97>>
\* 'indonesia'
kw_indonesia == <<105, 110, 100, 111, 110, 101, 115, 105, 97>>
\* 'java island'
kw_java_island == <<106, 97, 118, 97, 32, 105, 115, 108, 97, 110, 100>>
\* 'west java'
kw_west_java == <<119, 101, 115, 116, 32, 106, 97, 118, 97>>
\* 'central java'
kw_central_java == <<99, 101, 110, 116, 114, 97, 108, 32, 106, 97, 118, 97>>
\* 'malaysia'
kw_malaysia == <<109, 97, 108, 97, 121, 115, 105, 97>>
\* 'peninsular malaysia'
kw_peninsular_malaysia == <<112, 101, 110, 105, 110, 115, 117, 108, 97, 114, 32, 109, 97, 108, 97, 121, 115, 105, 97>>
\* 'philippines'
kw_philippines == <<112, 104, 105, 108, 105, 112, 112, 105, 110, 101, 115>>
\* 'luzon island'
kw_luzon_island == <<108, 117, 122, 111, 110, 32, 105, 115, 108, 97, 110, 100>>
\* 'northern luzon'
kw_northern_luzon == <<110, 111, 114, 116, 104, 101, 114, 110, 32, 108, 117, 122, 111, 110>>
\* 'central luzon'
kw_central_luzon == <<99, 101, 110, 116, 114, 97, 108, 32, 108, 117, 122, 111, 110>>
\* 'california'
kw_california == <<99, 97, 108, 105, 102, 111, 114, 110, 105, 97>>
\* 'central valley'
kw_central_valley == <<99, 101, 110, 116, 114, 97, 108, 32, 118, 97, 108, 108, 101, 121>>
\* 'southern coast'
kw_southern_coast == <<115, 111, 117, 116, 104, 101, 114, 110, 32, 99, 111, 97, 115, 116>>
\* 'india'
kw_india == <<105, 110, 100, 105, 97>>
\* 'punjab'
kw_punjab == <<112, 117, 110, 106, 97, 98>>
\* 'kerala'
kw_kerala == <<107, 101, 114, 97, 108, 97>>
\* 'ganges'
kw_ganges == <<103, 97, 110, 103, 101, 115>>

\* "India"
str_India == <<73, 110, 100, 105, 97>>
\* "INDIA"
str_INDIA == <<73, 78, 68, 73, 65>>
\* "California"
str_California == <<67, 97, 108, 105, 102, 111, 114, 110, 105, 97>>
\* "California, USA"
str_California_USA == <<67, 97, 108, 105, 102, 111, 114, 110, 105, 97, 44, 32, 85, 83, 65>>
\* "Thailand"
str_Thailand == <<84, 104, 97, 105, 108, 97, 110, 100>>
\* "Vietnam"
str_Vietnam == <<86, 105, 101, 116, 110, 97, 109>>
\* "Indonesia"
str_Indonesia == <<73, 110, 100, 111, 110, 101, 115, 105, 97>>
\* "Malaysia"
str_Malaysia == <<77, 97, 108, 97, 121, 115, 105, 97>>
\* "Philippines"
str_Philippines == <<80, 104, 105, 108, 105, 112, 112, 105, 110, 101, 115>>
\* "Brazil"
str_Brazil == <<66, 114, 97, 122, 105, 108>>
\* "Thailand-India"
str_Thailand_India == <<84, 104, 97, 105, 108, 97, 110, 100, 45, 73, 110, 100, 105, 97>>
\* "India/California"
str_India_California == <<73, 110, 100, 105, 97, 47, 67, 97, 108, 105, 102, 111, 114, 110, 105, 97>>
\* "Mekong Delta, India"
str_Mekong_Delta_India == <<77, 101, 107, 111, 110, 103, 32, 68, 101, 108, 116, 97, 44, 32, 73, 110, 100, 105, 97>>
\* ""
str_empty == <<>>
\* "Punjab"
str_Punjab == <<80, 117, 110, 106, 97, 98>>
\* "PUNJAB"
str_PUNJAB == <<80, 85, 78, 74, 65, 66>>
\* "Kerala"
str_Kerala == <<75, 101, 114, 97, 108, 97>>
\* "Ganges Basin"
str_Ganges_Basin == <<71, 97, 110, 103, 101, 115, 32, 66, 97, 115, 105, 110>>
\* "Central Valley"
str_Central_Valley == <<67, 101, 110, 116, 114, 97, 108, 32, 86, 97, 108, 108, 101, 121>>
\* "Southern Coast"
str_Southern_Coast == <<83, 111, 117, 116, 104, 101, 114, 110, 32, 67, 111, 97, 115, 116>>
\* "Bangkok"
str_Bangkok == <<66, 97, 110, 103, 107, 111, 107>>
\* "Chao Phraya"
str_Chao_Phraya == <<67, 104, 97, 111, 32, 80, 104, 114, 97, 121, 97>>
\* "West Java"
str_West_Java == <<87, 101, 115, 116, 32, 74, 97, 118, 97>>
\* "Central Java"
str_Central_Java == <<67, 101, 110, 116, 114, 97, 108, 32, 74, 97, 118, 97>>
\* "Northern Luzon"
str_Northern_Luzon == <<78, 111, 114, 116, 104, 101, 114, 110, 32, 76, 117, 122, 111, 110>>
\* "Central Luzon"
str_Central_Luzon == <<67, 101, 110, 116, 114, 97, 108, 32, 76, 117, 122, 111, 110>>
\* "Mato Grosso"
str_Mato_Grosso == <<77, 97, 116, 111, 32, 71, 114, 111, 115, 115, 111>>
\* "Punjab-Kerala"
str_Punjab_Kerala == <<80, 117, 110, 106, 97, 98, 45, 75, 101, 114, 97, 108, 97>>
\* "Central Valley Punjab"
str_Central_Valley_Punjab == <<67, 101, 110, 116, 114, 97, 108, 32, 86, 97, 108, 108, 101, 121, 32, 80, 117, 110, 106, 97, 98>>
\* "-"
str_dash == <<45>>
\* "G1"
str_G1 == <<71, 49>>
\* "SMAP_L3_SM_P_20250701"
str_SMAP_L3 == <<83, 77, 65, 80, 95, 76, 51, 95, 83, 77, 95, 80, 95, 50, 48, 50, 53, 48, 55, 48, 49>>

\* "Australia"
str_Australia == <<65, 117, 115, 116, 114, 97, 108, 105, 97>>

-----------------------------------------------------------------------------
(* Numbers: a JavaScript number is NaN or a fixed-point value in units of   *)
(* 10^-6 (0.35 is 350000); a product is rounded down to the unit.           *)

NaN == [nan |-> TRUE, v |-> 0]
Num(x) == [nan |-> FALSE, v |-> x]

\* Math.min / Math.max return NaN as soon as one argument is NaN
MathMin(a, b) == IF a.nan \/ b.nan THEN NaN ELSE Num(Min(a.v, b.v))
MathMax(a, b) == IF a.nan \/ b.nan THEN NaN ELSE Num(Max(a.v, b.v))

\* x * m for a multiplier m given in hundredths (1.1 is 110)
Times(x, pct) == IF x.nan THEN NaN ELSE Num((x.v * pct) \div 100)
Plus(x, y) == IF x.nan \/ y.nan THEN NaN ELSE Num(x.v + y.v)

-----------------------------------------------------------------------------
(* applyRegionalCharacteristics                                             *)

Rule(pct, lo, hi) == [pct |-> pct, lo |-> lo, hi |-> hi]

\* The default range with the upper bound of the high-rainfall rules
DefaultRule_upper_half == Rule(100, 50000, 500000)

\* `Math.max(0.05, Math.min(0.45, baseMoisture))`
DefaultRule == Rule(100, 50000, 450000)

\* The rule selected by the chain of if statements, with Punjab and Kerala
\* exchanged (a slip in the India branch).
MatchedRule_swapped(region, subregion) ==
    LET regionLower == ToLower(region)
        subregionLower == ToLower(subregion)
    IN  IF Includes(regionLower, kw_thailand) \/ Includes(regionLower, kw_central_thailand)
        THEN IF Includes(subregionLower, kw_bangkok) THEN Rule(110, 150000, 400000)
             ELSE IF Includes(subregionLower, kw_chao_phraya) THEN Rule(120, 200000, 450000)
             ELSE Rule(100, 150000, 350000)
        ELSE IF Includes(regionLower, kw_vietnam) \/ Includes(regionLower, kw_mekong_delta)
        THEN Rule(130, 250000, 500000)
        ELSE IF Includes(regionLower, kw_indonesia) \/ Includes(regionLower, kw_java_island)
        THEN IF Includes(subregionLower, kw_west_java) THEN Rule(120, 250000, 450000)
             ELSE IF Includes(subregionLower, kw_central_java) THEN Rule(110, 200000, 400000)
             ELSE Rule(90, 150000, 350000)
        ELSE IF Includes(regionLower, kw_malaysia) \/ Includes(regionLower, kw_peninsular_malaysia)
        THEN Rule(130, 250000, 500000)
        ELSE IF Includes(regionLower, kw_philippines) \/ Includes(regionLower, kw_luzon_island)
        THEN IF Includes(subregionLower, kw_northern_luzon) THEN Rule(110, 200000, 450000)
             ELSE IF Includes(subregionLower, kw_central_luzon) THEN Rule(100, 200000, 400000)
             ELSE Rule(95, 180000, 380000)
        ELSE IF Includes(regionLower, kw_california) /\ Includes(subregionLower, kw_central_valley)
        THEN Rule(120, 150000, 400000)
        ELSE IF Includes(regionLower, kw_california) /\ Includes(subregionLower, kw_southern_coast)
        THEN Rule(80, 80000, 250000)
        ELSE IF Includes(regionLower, kw_india) /\ Includes(subregionLower, kw_kerala)
        THEN Rule(110, 200000, 350000)
        ELSE IF Includes(regionLower, kw_india) /\ Includes(subregionLower, kw_punjab)
        THEN Rule(130, 250000, 450000)
        ELSE IF Includes(regionLower, kw_india) /\ Includes(subregionLower, kw_ganges)
        THEN Rule(100, 150000, 350000)
        ELSE DefaultRule

\* The rule (multiplier in hundredths, lower and upper clamp bound) selected
\* by the chain of if statements for a region and subregion.
MatchedRule(region, subregion) ==
    LET regionLower == ToLower(region)
        subregionLower == ToLower(subregion)
    IN  IF Includes(regionLower, kw_thailand) \/ Includes(regionLower, kw_central_thailand)
        THEN IF Includes(subregionLower, kw_bangkok) THEN Rule(110, 150000, 400000)
             ELSE IF Includes(subregionLower, kw_chao_phraya) THEN Rule(120, 200000, 450000)
             ELSE Rule(100, 150000, 350000)
        ELSE IF Includes(regionLower, kw_vietnam) \/ Includes(regionLower, kw_mekong_delta)
        THEN Rule(130, 250000, 500000)
        ELSE IF Includes(regionLower, kw_indonesia) \/ Includes(regionLower, kw_java_island)
        THEN IF Includes(subregionLower, kw_west_java) THEN Rule(120, 250000, 450000)
             ELSE IF Includes(subregionLower, kw_central_java) THEN Rule(110, 200000, 400000)
             ELSE Rule(90, 150000, 350000)
        ELSE IF Includes(regionLower, kw_malaysia) \/ Includes(regionLower, kw_peninsular_malaysia)
        THEN Rule(130, 250000, 500000)
        ELSE IF Includes(regionLower, kw_philippines) \/ Includes(regionLower, kw_luzon_island)
        THEN IF Includes(subregionLower, kw_northern_luzon) THEN Rule(110, 200000, 450000)
             ELSE IF Includes(subregionLower, kw_central_luzon) THEN Rule(100, 200000, 400000)
             ELSE Rule(95, 180000, 380000)
        ELSE IF Includes(regionLower, kw_california) /\ Includes(subregionLower, kw_central_valley)
        THEN Rule(120, 150000, 400000)
        ELSE IF Includes(regionLower, kw_california) /\ Includes(subregionLower, kw_southern_coast)
        THEN Rule(80, 80000, 250000)
        ELSE IF Includes(regionLower, kw_india) /\ Includes(subregionLower, kw_punjab)
        THEN Rule(110, 200000, 350000)
        ELSE IF Includes(regionLower, kw_india) /\ Includes(subregionLower, kw_kerala)
        THEN Rule(130, 250000, 450000)
        ELSE IF Includes(regionLower, kw_india) /\ Includes(subregionLower, kw_ganges)
        THEN Rule(100, 150000, 350000)
        ELSE DefaultRule

\* Math.max(lo, Math.min(hi, baseMoisture * m)) with the rule that matched
applyRegionalCharacteristics(baseMoisture, region, subregion) ==
    LET rule == MatchedRule(region, subregion)
    IN  MathMax(Num(rule.lo), MathMin(Num(rule.hi), Times(baseMoisture, rule.pct)))

-----------------------------------------------------------------------------
(* getRegionalSoilMoisture and getRegionSeed                                *)
(* A date is what `new Date(date)` yields: an invalid date, or a calendar   *)
(* day (m is the zero-based month of getMonth) with the millisecond part of *)
(* getTime(); the local-time getters are read in a UTC runtime.             *)

InvalidDate == [valid |-> FALSE, y |-> 0, m |-> 0, d |-> 0, ms |-> 0]
DateOf(y, m, d, ms) == [valid |-> TRUE, y |-> y, m |-> m, d |-> d, ms |-> ms]

IsLeap(y) == (y % 4 = 0 /\ y % 100 # 0) \/ y % 400 = 0

DaysInMonth(y, m) ==
    IF m = 1 THEN (IF IsLeap(y) THEN 29 ELSE 28)
    ELSE IF m \in {3, 5, 8, 10} THEN 30 ELSE 31

RECURSIVE DaysBeforeMonth(_, _)
DaysBeforeMonth(y, m) == IF m = 0 THEN 0 ELSE DaysBeforeMonth(y, m - 1) + DaysInMonth(y, m - 1)

\* dayOfYear counted from new Date(year, 0, 1), the first of January
dayOfYear_from_jan1(date) == DaysBeforeMonth(date.y, date.m) + date.d - 1

\* Math.floor((dateObj.getTime() - new Date(year, 0, 0).getTime()) / 86400000)
dayOfYear(date) == DaysBeforeMonth(date.y, date.m) + date.d

\* (yearSeed + monthSeed + daySeed + dayOfYear) % 10000
dateSeed(date) == (date.y * 31 + date.m * 47 + date.d * 13 + dayOfYear(date)) % 10000

\* A granule argument: absent (null / undefined), or an object whose
\* producer_granule_id and id are strings, the empty string standing for a
\* missing property as well.
NoGranule == [present |-> FALSE, producer_granule_id |-> <<>>, id |-> <<>>]
Granule(pid, id) == [present |-> TRUE, producer_granule_id |-> pid, id |-> id]

\* granule.producer_granule_id || granule.id || ''
granuleId(granule) ==
    IF granule.producer_granule_id # <<>> THEN granule.producer_granule_id
    ELSE IF granule.id # <<>> THEN granule.id
    ELSE <<>>

granuleSeed(granule) == CharSum(granuleId(granule))

getRegionSeed(region, subregion) == CharSum(ToLower(Concat3(region, str_dash, subregion)))

\* 5 * combinedSeed, an integer: 5 * ((g*0.2 + d*0.6 + r*0.2) % 10000)
combinedSeedFifths(region, subregion, date, granule) ==
    (granuleSeed(granule) + 3 * dateSeed(date) + getRegionSeed(region, subregion)) % 50000

\* Math.sin((month * Math.PI) / 6) * 0.1, in units of 10^-6
monthlyVariation(m) ==
    CASE m \in {0, 6} -> 0
      [] m \in {1, 5} -> 50000
      [] m \in {2, 4} -> 86603
      [] m = 3 -> 100000
      [] m \in {7, 11} -> -50000
      [] m \in {8, 10} -> -86603
      [] m = 9 -> -100000

\* The value handed to applyRegionalCharacteristics: by the try block
\* ((combinedSeed / 10000) * 0.4 + 0.05 + monthlyVariation), or by the catch
\* block (0.2 + (getTime() % 1000) / 5000) when reading a property of an
\* absent granule throws.
fallbackBase(region, subregion, date, granule) ==
    IF ~granule.present
    THEN IF date.valid THEN Num(200000 + date.ms * 200) ELSE NaN
    ELSE IF date.valid
         THEN Num(8 * combinedSeedFifths(region, subregion, date, granule) + 50000
                  + monthlyVariation(date.m))
         ELSE NaN

\* The block that produces the value: the catch block when reading a property
\* of an absent granule throws, the try block otherwise (an invalid date makes
\* the arithmetic yield NaN and throws nothing).
fallbackPath(granule) == IF granule.present THEN "try" ELSE "catch"

\* The constants of the try block after a call: computed tells whether the
\* block got as far as computing them, nan whether the date made dateSeed,
\* combinedSeed and baseMoisture NaN.  combinedSeedFifths is 5 * combinedSeed
\* and baseMoisture is (combinedSeed / 10000) * 0.4 + 0.05.
fallbackSeeds(region, subregion, date, granule) ==
    IF ~granule.present
    THEN [computed |-> FALSE, nan |-> FALSE, granuleSeed |-> 0, dateSeed |-> 0,
          regionSeed |-> 0, combinedSeedFifths |-> 0, baseMoisture |-> 0]
    ELSE IF ~date.valid
    THEN [computed |-> TRUE, nan |-> TRUE, granuleSeed |-> granuleSeed(granule),
          dateSeed |-> 0, regionSeed |-> getRegionSeed(region, subregion),
          combinedSeedFifths |-> 0, baseMoisture |-> 0]
    ELSE [computed |-> TRUE, nan |-> FALSE, granuleSeed |-> granuleSeed(granule),
          dateSeed |-> dateSeed(date), regionSeed |-> getRegionSeed(region, subregion),
          combinedSeedFifths |-> combinedSeedFifths(region, subregion, date, granule),
          baseMoisture |-> 8 * combinedSeedFifths(region, subregion, date, granule) + 50000]

\* getRegionalSoilMoisture drawing on a value that changes from call to call
\* (as a random number generator or a call counter would).
getRegionalSoilMoisture_stateful(region, subregion, date, granule) ==
    applyRegionalCharacteristics(
        Plus(fallbackBase(region, subregion, date, granule), Num(Len(fb) * 10000)),
        region, subregion)

getRegionalSoilMoisture(region, subregion, date, granule) ==
    applyRegionalCharacteristics(fallbackBase(region, subregion, date, granule),
                                 region, subregion)

-----------------------------------------------------------------------------
(* processHDF5File                                                          *)
(* A buffer is a sequence of bytes; offsets are zero-based as in DataView.  *)
(* A 32-bit float is kept as its sign, biased exponent and mantissa fields. *)

\* dataView.getUint8(i)
getUint8(buffer, i) == buffer[i + 1]

\* the four comparisons of the scan loop at offset i
MarkerAt(buffer, i) ==
    /\ getUint8(buffer, i) = 83
    /\ getUint8(buffer, i + 1) = 77
    /\ getUint8(buffer, i + 2) = 65
    /\ getUint8(buffer, i + 3) = 80

\* the offsets visited by `for (let i = 0; i < buffer.byteLength - 4; i++)`
scanned(buffer) == 0..(Len(buffer) - 4 - 1)

\* dataOffset starting at 0 instead of -1: a buffer without the pattern is
\* then read from its first byte.
dataOffset_from_start(buffer) ==
    IF \E i \in scanned(buffer) : MarkerAt(buffer, i)
    THEN (CHOOSE i \in scanned(buffer) :
              MarkerAt(buffer, i) /\ \A j \in 0..(i - 1) : ~MarkerAt(buffer, j)) + 1000
    ELSE 0

\* dataOffset after the scan loop: -1, or 1000 past the first offset at which
\* the pattern is found, where the loop breaks
dataOffset(buffer) ==
    IF \E i \in scanned(buffer) : MarkerAt(buffer, i)
    THEN (CHOOSE i \in scanned(buffer) :
              MarkerAt(buffer, i) /\ \A j \in 0..(i - 1) : ~MarkerAt(buffer, j)) + 1000
    ELSE -1

\* numValues without the limit of 1000
numValues_no_cap(buffer) == (Len(buffer) - dataOffset(buffer)) \div 4

\* Math.min(1000, Math.floor((buffer.byteLength - dataOffset) / 4))
numValues(buffer) == Min(1000, (Len(buffer) - dataOffset(buffer)) \div 4)

\* dataView.getFloat32(offset, true): little-endian, IEEE 754 single
getFloat32(buffer, offset) ==
    LET b0 == getUint8(buffer, offset)
        b1 == getUint8(buffer, offset + 1)
        b2 == getUint8(buffer, offset + 2)
        b3 == getUint8(buffer, offset + 3)
    IN  [sign |-> b3 \div 128,
         exp  |-> (b3 % 128) * 2 + b2 \div 128,
         mant |-> (b2 % 128) * 65536 + b1 * 256 + b0]

F32IsNaN(f) == f.exp = 255 /\ f.mant # 0
F32IsZero(f) == f.exp = 0 /\ f.mant = 0

\* value !== -9999  (-9999 is sign 1, exponent 140, mantissa 0x1C3C00)
F32IsFill(f) == f.sign = 1 /\ f.exp = 140 /\ f.mant = 1850368

\* value > 0
F32GtZero(f) == ~F32IsNaN(f) /\ f.sign = 0 /\ ~F32IsZero(f)

\* value < 1  (1 is sign 0, exponent 127, mantissa 0)
F32LtOne(f) == ~F32IsNaN(f) /\ (f.sign = 1 \/ F32IsZero(f) \/ f.exp < 127)

\* the value test without its upper bound
PassesValueTest_no_upper(value) == ~F32IsFill(value) /\ F32GtZero(value)

\* value !== -9999 && value > 0 && value < 1
PassesValueTest(value) == ~F32IsFill(value) /\ F32GtZero(value) /\ F32LtOne(value)

\* A bbox argument: absent (reading bbox[1] throws inside the inner try), or
\* [minLon, minLat, maxLon, maxLat].
NoBbox == [present |-> FALSE, v |-> <<0, 0, 0, 0>>]
Bbox(minLon, minLat, maxLon, maxLat) == [present |-> TRUE, v |-> <<minLon, minLat, maxLon, maxLat>>]

\* latProxy >= bbox[1] && latProxy <= bbox[3] && lonProxy >= bbox[0] &&
\* lonProxy <= bbox[2], where filePosition = i / n, latProxy = bbox[1] +
\* (bbox[3] - bbox[1]) * filePosition and lonProxy likewise (compared after
\* multiplying through by n > 0)
PassesGeoFilter(bbox, i, n) ==
    LET dLat == bbox.v[4] - bbox.v[2]
        dLon == bbox.v[3] - bbox.v[1]
    IN  /\ dLat * i >= 0
        /\ dLat * i <= dLat * n
        /\ dLon * i >= 0
        /\ dLon * i <= dLon * n

\* One pass of the decoding loop (dataOffset off, numValues n) pushes the
\* value at index i, or skips it: guard false, test failed, or an exception
\* caught by the inner catch.
Pushes(buffer, bbox, off, n, i) ==
    /\ off + i * 4 + 4 <= Len(buffer)
    /\ PassesValueTest(getFloat32(buffer, off + i * 4))
    /\ bbox.present
    /\ PassesGeoFilter(bbox, i, n)

\* The offsets handed to getFloat32 by the decoding loop, in order: those of
\* the passes whose guard `offset + 4 <= buffer.byteLength` holds (none when
\* the function returned before the loop).
float32Reads(buffer) ==
    IF dataOffset(buffer) = -1 THEN <<>>
    ELSE LET off == dataOffset(buffer)
             n == numValues(buffer)
         IN  SelectSeq([k \in 1..Max(n, 0) |-> off + (k - 1) * 4],
                       LAMBDA offset : offset + 4 <= Len(buffer))

\* validValues after the decoding loop `for (let i = 0; i < numValues; i++)`
validValues(buffer, bbox) ==
    LET off == dataOffset(buffer)
        n == numValues(buffer)
        pushed == SelectSeq([k \in 1..Max(n, 0) |-> k - 1],
                            LAMBDA i : Pushes(buffer, bbox, off, n, i))
    IN  [k \in 1..Len(pushed) |-> getFloat32(buffer, off + pushed[k] * 4)]

\* A value of (0, 1) in units of 10^-6, rounded down
F32Micro(f) ==
    LET m == IF f.exp = 0 THEN f.mant ELSE 8388608 + f.mant
        e == IF f.exp = 0 THEN 1 ELSE f.exp
    IN  IF e < 107 THEN 0 ELSE ((m \div 256) * 15625) \div (2 ^ (136 - e))

\* Whether a value of (0, 1) is a whole number of 10^-6 units: its mantissa
\* times 2^(exponent - 144) is an integer
F32MicroExact(f) ==
    LET m == IF f.exp = 0 THEN f.mant ELSE 8388608 + f.mant
        e == IF f.exp = 0 THEN 1 ELSE f.exp
    IN  IF e >= 144 THEN TRUE
        ELSE IF 144 - e > 24 THEN m = 0
        ELSE m % (2 ^ (144 - e)) = 0

\* validValues.reduce((sum, val) => sum + val, 0), summed by halves
RECURSIVE SumMicroRange(_, _, _)
SumMicroRange(values, lo, hi) ==
    IF lo > hi THEN 0
    ELSE IF lo = hi THEN F32Micro(values[lo])
    ELSE LET mid == (lo + hi) \div 2
         IN  SumMicroRange(values, lo, mid) + SumMicroRange(values, mid + 1, hi)

SumMicro(values) == SumMicroRange(values, 1, Len(values))

\* Whether sum / count exceeds its 10^-6 units rounded down: the division
\* leaves a remainder or some value has a part below 10^-6
MeanFrac(values, count) ==
    \/ SumMicro(values) % count # 0
    \/ \E k \in 1..Len(values) : ~F32MicroExact(values[k])

\* The value the promise resolves to: null, or { average, validValues };
\* average is in units of 10^-6 rounded down, averageFrac tells that the
\* quotient exceeds it;
\* raised tells that the promise was rejected instead.
NullResult ==
    [raised |-> FALSE, isNull |-> TRUE, average |-> 0, averageFrac |-> FALSE,
     validValues |-> <<>>]

\* processHDF5File dividing the sum by numValues, the number of candidates
processHDF5File_mean_over_candidates(buffer, bbox) ==
    IF dataOffset(buffer) = -1 THEN NullResult
    ELSE LET vs == validValues(buffer, bbox)
         IN  IF Len(vs) = 0 THEN NullResult
             ELSE [raised |-> FALSE, isNull |-> FALSE,
                   average |-> SumMicro(vs) \div numValues(buffer),
                   averageFrac |-> MeanFrac(vs, numValues(buffer)),
                   validValues |-> vs]

\* processHDF5File without the `validValues.length === 0` return
processHDF5File_no_empty_check(buffer, bbox) ==
    IF dataOffset(buffer) = -1 THEN NullResult
    ELSE LET vs == validValues(buffer, bbox)
         IN  [raised |-> FALSE, isNull |-> FALSE,
              average |-> IF vs = <<>> THEN 0 ELSE SumMicro(vs) \div Len(vs),
              averageFrac |-> IF vs = <<>> THEN FALSE ELSE MeanFrac(vs, Len(vs)),
              validValues |-> vs]

processHDF5File(buffer, bbox) ==
    IF dataOffset(buffer) = -1 THEN NullResult
    ELSE LET vs == validValues(buffer, bbox)
         IN  IF Len(vs) = 0 THEN NullResult
             ELSE [raised |-> FALSE, isNull |-> FALSE,
                   average |-> SumMicro(vs) \div Len(vs),
                   averageFrac |-> MeanFrac(vs, Len(vs)),
                   validValues |-> vs]

-----------------------------------------------------------------------------
(* demoData.ts: getSeasonalMoisture, getInterpretation, getTips,           *)
(* getAIContext and getDemoAnalysis                                         *)

\* The values Math.random() is taken to return, in units of 10^-6
RandomDraws == {0, 142857, 333333, 500000, 718281, 857142, 999999}

\* the season chosen from date.getMonth(); every comparison with the NaN
\* month of an invalid date is false, which leaves 'winter'
seasonOf(date) ==
    IF ~date.valid THEN "winter"
    ELSE IF date.m >= 2 /\ date.m <= 4 THEN "spring"
    ELSE IF date.m >= 5 /\ date.m <= 7 THEN "summer"
    ELSE IF date.m >= 8 /\ date.m <= 10 THEN "fall"
    ELSE "winter"

\* baseValues[region]?.[season] || 0.25
baseValue(region, season) ==
    LET row(w, sp, su, f) == [winter |-> w, spring |-> sp, summer |-> su, fall |-> f]
    IN  IF region = str_Punjab THEN row(250000, 350000, 150000, 300000)[season]
        ELSE IF region = str_California THEN row(300000, 250000, 100000, 200000)[season]
        ELSE IF region = str_Brazil THEN row(400000, 350000, 300000, 350000)[season]
        ELSE IF region = str_Australia THEN row(200000, 250000, 150000, 200000)[season]
        ELSE IF region = str_India THEN row(250000, 300000, 200000, 250000)[season]
        ELSE 250000

\* Math.max(0.05, Math.min(0.6, baseValue + (Math.random() - 0.5) * 0.2))
getSeasonalMoisture(region, date, random) ==
    LET variation == ((random - 500000) * 2) \div 10
    IN  MathMax(Num(50000), MathMin(Num(600000),
                                    Num(baseValue(region, seasonOf(date)) + variation)))

\* (moisture * 100).toFixed(1), as a number of tenths of a percent: the
\* nearest tenth, the larger one when two are equally near
toFixed1Percent(moisture) == (moisture.v + 500) \div 1000

\* The sentence returned by getInterpretation: its wording, the region and
\* the percentage it quotes.  A comparison with NaN is false, so NaN falls
\* through to the last branch.
getInterpretation(moisture, region) ==
    LET below(limit) == ~moisture.nan /\ moisture.v < limit
        sentence(wording, advice) ==
            [region |-> region, wording |-> wording, nanPct |-> moisture.nan,
             pct |-> toFixed1Percent(moisture), advice |-> advice]
    IN  IF below(150000)
        THEN sentence("is critically low",
                      "This indicates severe drought conditions requiring immediate irrigation intervention.")
        ELSE IF below(250000)
        THEN sentence("is below optimal levels",
                      "Consider supplemental irrigation for sensitive crops.")
        ELSE IF below(350000)
        THEN sentence("is within normal range",
                      "Conditions are suitable for most agricultural activities.")
        ELSE IF below(450000)
        THEN sentence("is above average",
                      "Excellent conditions for crop growth and development.")
        ELSE sentence("is very high",
                      "Monitor for potential drainage issues or waterlogging.")

\* getTips with `<=` in its second comparison
getTips_second_inclusive(moisture, region) ==
    LET below(limit) == ~moisture.nan /\ moisture.v < limit
    IN  IF below(150000)
        THEN <<"Implement emergency irrigation protocols",
               "Consider drought-resistant crop varieties",
               "Apply soil moisture retention techniques",
               "Monitor weather forecasts for rain events">>
        ELSE IF ~moisture.nan /\ moisture.v <= 250000
        THEN <<"Schedule supplemental irrigation",
               "Focus on drought-tolerant crops",
               "Implement water conservation measures",
               "Track soil moisture trends daily">>
        ELSE IF below(350000)
        THEN <<"Optimal conditions for planting",
               "Proceed with normal irrigation schedule",
               "Continue regular moisture monitoring",
               "Good time for fertilizer application">>
        ELSE IF below(450000)
        THEN <<"Excellent growing conditions",
               "Reduce irrigation frequency",
               "Monitor for disease pressure",
               "Expect strong crop yields">>
        ELSE <<"Monitor for drainage issues",
               "Reduce irrigation immediately",
               "Consider raised bed planting",
               "Check for waterlogging damage">>

\* The list returned by getTips (the texts without their leading emoji)
getTips(moisture, region) ==
    LET below(limit) == ~moisture.nan /\ moisture.v < limit
    IN  IF below(150000)
        THEN <<"Implement emergency irrigation protocols",
               "Consider drought-resistant crop varieties",
               "Apply soil moisture retention techniques",
               "Monitor weather forecasts for rain events">>
        ELSE IF below(250000)
        THEN <<"Schedule supplemental irrigation",
               "Focus on drought-tolerant crops",
               "Implement water conservation measures",
               "Track soil moisture trends daily">>
        ELSE IF below(350000)
        THEN <<"Optimal conditions for planting",
               "Proceed with normal irrigation schedule",
               "Continue regular moisture monitoring",
               "Good time for fertilizer application">>
        ELSE IF below(450000)
        THEN <<"Excellent growing conditions",
               "Reduce irrigation frequency",
               "Monitor for disease pressure",
               "Expect strong crop yields">>
        ELSE <<"Monitor for drainage issues",
               "Reduce irrigation immediately",
               "Consider raised bed planting",
               "Check for waterlogging damage">>

\* A seed message is kept as its role, the region it names and, where its
\* content has them, the percentage quoted (in tenths of a percent) and the
\* interpretation sentence appended.

\* getAIContext quoting the percentage cut off after the first decimal
getAIContext_truncated(region, moisture) ==
    <<[role |-> "system", region |-> region, pct |-> moisture.v \div 1000],
      [role |-> "user", region |-> region],
      [role |-> "assistant", region |-> region, pct |-> moisture.v \div 1000,
       sentence |-> getInterpretation(moisture, region)]>>

getAIContext(region, moisture) ==
    <<[role |-> "system", region |-> region, pct |-> toFixed1Percent(moisture)],
      [role |-> "user", region |-> region],
      [role |-> "assistant", region |-> region, pct |-> toFixed1Percent(moisture),
       sentence |-> getInterpretation(moisture, region)]>>

\* The record getDemoAnalysis resolves to, for the value Math.random()
\* returns inside getSeasonalMoisture (the date is kept as the Date passed in)
getDemoAnalysis(region, subregion, date, random) ==
    LET soilMoisture == getSeasonalMoisture(region, date, random)
    IN  [region |-> region, subregion |-> subregion, date |-> date,
         soilMoisture |-> soilMoisture,
         interpretation |-> getInterpretation(soilMoisture, region),
         tips |-> getTips(soilMoisture, region),
         aiContext |-> getAIContext(region, soilMoisture)]

-----------------------------------------------------------------------------
(* The region catalog (Globe.tsx) and the analysis page (Index.tsx,         *)
(* RegionSelector.tsx).  Coordinates are in tenths of a degree; a name     *)
(* that no other definition uses is written out as its character codes.     *)

regions ==
  <<
    \* 'Punjab', India: 'Northern Punjab', 'Central Punjab', 'Southern Punjab'
    [id |-> "punjab",
     name |-> str_Punjab,
     country |-> str_India,
     position |-> [lat |-> 310, lon |-> 750],
     subregions |-> <<<<78, 111, 114, 116, 104, 101, 114, 110, 32, 80, 117, 110, 106, 97, 98>>,
                      <<67, 101, 110, 116, 114, 97, 108, 32, 80, 117, 110, 106, 97, 98>>,
                      <<83, 111, 117, 116, 104, 101, 114, 110, 32, 80, 117, 110, 106, 97, 98>>>>,
     bbox |-> <<738, 295, 765, 325>>],
    \* 'Kerala', India: 'Northern Kerala', 'Central Kerala', 'Southern Kerala'
    [id |-> "kerala",
     name |-> str_Kerala,
     country |-> str_India,
     position |-> [lat |-> 100, lon |-> 765],
     subregions |-> <<<<78, 111, 114, 116, 104, 101, 114, 110, 32, 75, 101, 114, 97, 108, 97>>,
                      <<67, 101, 110, 116, 114, 97, 108, 32, 75, 101, 114, 97, 108, 97>>,
                      <<83, 111, 117, 116, 104, 101, 114, 110, 32, 75, 101, 114, 97, 108, 97>>>>,
     bbox |-> <<757, 82, 773, 102>>],
    \* 'Ganges Basin', India: 'Upper Ganges', 'Middle Ganges', 'Lower Ganges'
    [id |-> "ganges",
     name |-> str_Ganges_Basin,
     country |-> str_India,
     position |-> [lat |-> 260, lon |-> 845],
     subregions |-> <<<<85, 112, 112, 101, 114, 32, 71, 97, 110, 103, 101, 115>>,
                      <<77, 105, 100, 100, 108, 101, 32, 71, 97, 110, 103, 101, 115>>,
                      <<76, 111, 119, 101, 114, 32, 71, 97, 110, 103, 101, 115>>>>,
     bbox |-> <<800, 230, 890, 290>>],
    \* 'Central Valley', California, USA: 'Sacramento Valley', 'San Joaquin Valley'
    [id |-> "central-valley",
     name |-> str_Central_Valley,
     country |-> str_California_USA,
     position |-> [lat |-> 370, lon |-> -1205],
     subregions |-> <<<<83, 97, 99, 114, 97, 109, 101, 110, 116, 111, 32, 86, 97, 108, 108, 101, 121>>,
                      <<83, 97, 110, 32, 74, 111, 97, 113, 117, 105, 110, 32, 86, 97, 108, 108, 101, 121>>>>,
     bbox |-> <<-1220, 360, -1190, 380>>],
    \* 'Southern Coast', California, USA: 'Los Angeles Basin', 'San Diego County'
    [id |-> "southern-coast",
     name |-> str_Southern_Coast,
     country |-> str_California_USA,
     position |-> [lat |-> 340, lon |-> -1185],
     subregions |-> <<<<76, 111, 115, 32, 65, 110, 103, 101, 108, 101, 115, 32, 66, 97, 115, 105, 110>>,
                      <<83, 97, 110, 32, 68, 105, 101, 103, 111, 32, 67, 111, 117, 110, 116, 121>>>>,
     bbox |-> <<-1200, 330, -1170, 350>>],
    \* 'Midwest Corn Belt', USA: 'Iowa Corn Belt', 'Illinois Plains', 'Indiana Fields'
    [id |-> "midwest-corn",
     name |-> <<77, 105, 100, 119, 101, 115, 116, 32, 67, 111, 114, 110, 32, 66, 101, 108, 116>>,
     country |-> <<85, 83, 65>>,
     position |-> [lat |-> 415, lon |-> -935],
     subregions |-> <<<<73, 111, 119, 97, 32, 67, 111, 114, 110, 32, 66, 101, 108, 116>>,
                      <<73, 108, 108, 105, 110, 111, 105, 115, 32, 80, 108, 97, 105, 110, 115>>,
                      <<73, 110, 100, 105, 97, 110, 97, 32, 70, 105, 101, 108, 100, 115>>>>,
     bbox |-> <<-960, 390, -890, 440>>],
    \* 'Great Plains', USA: 'Nebraska Plains', 'Kansas Wheat Belt', 'Oklahoma Panhandle'
    [id |-> "great-plains",
     name |-> <<71, 114, 101, 97, 116, 32, 80, 108, 97, 105, 110, 115>>,
     country |-> <<85, 83, 65>>,
     position |-> [lat |-> 390, lon |-> -1010],
     subregions |-> <<<<78, 101, 98, 114, 97, 115, 107, 97, 32, 80, 108, 97, 105, 110, 115>>,
                      <<75, 97, 110, 115, 97, 115, 32, 87, 104, 101, 97, 116, 32, 66, 101, 108, 116>>,
                      <<79, 107, 108, 97, 104, 111, 109, 97, 32, 80, 97, 110, 104, 97, 110, 100, 108, 101>>>>,
     bbox |-> <<-1040, 360, -960, 420>>],
    \* 'Pampas', Argentina: 'Buenos Aires Province', 'Santa Fe Plains', 'Córdoba Region'
    [id |-> "pampas",
     name |-> <<80, 97, 109, 112, 97, 115>>,
     country |-> <<65, 114, 103, 101, 110, 116, 105, 110, 97>>,
     position |-> [lat |-> -345, lon |-> -600],
     subregions |-> <<<<66, 117, 101, 110, 111, 115, 32, 65, 105, 114, 101, 115, 32, 80, 114, 111, 118, 105, 110, 99, 101>>,
                      <<83, 97, 110, 116, 97, 32, 70, 101, 32, 80, 108, 97, 105, 110, 115>>,
                      <<67, 243, 114, 100, 111, 98, 97, 32, 82, 101, 103, 105, 111, 110>>>>,
     bbox |-> <<-650, -390, -570, -300>>],
    \* 'Cerrado', Brazil: 'Mato Grosso', 'Goiás', 'Bahia Cerrado'
    [id |-> "cerrado",
     name |-> <<67, 101, 114, 114, 97, 100, 111>>,
     country |-> str_Brazil,
     position |-> [lat |-> -150, lon |-> -520],
     subregions |-> <<str_Mato_Grosso,
                      <<71, 111, 105, 225, 115>>,
                      <<66, 97, 104, 105, 97, 32, 67, 101, 114, 114, 97, 100, 111>>>>,
     bbox |-> <<-600, -250, -420, -50>>],
    \* 'Murray-Darling Basin', Australia: 'Murray Valley', 'Darling Plains', 'Riverina'
    [id |-> "murray-darling",
     name |-> <<77, 117, 114, 114, 97, 121, 45, 68, 97, 114, 108, 105, 110, 103, 32, 66, 97, 115, 105, 110>>,
     country |-> str_Australia,
     position |-> [lat |-> -340, lon |-> 1430],
     subregions |-> <<<<77, 117, 114, 114, 97, 121, 32, 86, 97, 108, 108, 101, 121>>,
                      <<68, 97, 114, 108, 105, 110, 103, 32, 80, 108, 97, 105, 110, 115>>,
                      <<82, 105, 118, 101, 114, 105, 110, 97>>>>,
     bbox |-> <<1380, -380, 1490, -280>>],
    \* 'Po Valley', Italy: 'Lombardy Plains', 'Veneto Region', 'Emilia-Romagna'
    [id |-> "po-valley",
     name |-> <<80, 111, 32, 86, 97, 108, 108, 101, 121>>,
     country |-> <<73, 116, 97, 108, 121>>,
     position |-> [lat |-> 450, lon |-> 105],
     subregions |-> <<<<76, 111, 109, 98, 97, 114, 100, 121, 32, 80, 108, 97, 105, 110, 115>>,
                      <<86, 101, 110, 101, 116, 111, 32, 82, 101, 103, 105, 111, 110>>,
                      <<69, 109, 105, 108, 105, 97, 45, 82, 111, 109, 97, 103, 110, 97>>>>,
     bbox |-> <<70, 440, 130, 460>>],
    \* 'Ukrainian Plains', Ukraine: 'Central Ukraine', 'Southern Ukraine', 'Eastern Plains'
    [id |-> "ukraine-plains",
     name |-> <<85, 107, 114, 97, 105, 110, 105, 97, 110, 32, 80, 108, 97, 105, 110, 115>>,
     country |-> <<85, 107, 114, 97, 105, 110, 101>>,
     position |-> [lat |-> 490, lon |-> 320],
     subregions |-> <<<<67, 101, 110, 116, 114, 97, 108, 32, 85, 107, 114, 97, 105, 110, 101>>,
                      <<83, 111, 117, 116, 104, 101, 114, 110, 32, 85, 107, 114, 97, 105, 110, 101>>,
                      <<69, 97, 115, 116, 101, 114, 110, 32, 80, 108, 97, 105, 110, 115>>>>,
     bbox |-> <<220, 450, 400, 520>>],
    \* 'Nile Delta', Egypt: 'Lower Delta', 'Upper Delta', 'Cairo Region'
    [id |-> "nile-delta",
     name |-> <<78, 105, 108, 101, 32, 68, 101, 108, 116, 97>>,
     country |-> <<69, 103, 121, 112, 116>>,
     position |-> [lat |-> 305, lon |-> 310],
     subregions |-> <<<<76, 111, 119, 101, 114, 32, 68, 101, 108, 116, 97>>,
                      <<85, 112, 112, 101, 114, 32, 68, 101, 108, 116, 97>>,
                      <<67, 97, 105, 114, 111, 32, 82, 101, 103, 105, 111, 110>>>>,
     bbox |-> <<295, 295, 325, 315>>],
    \* 'North China Plain', China: 'Hebei Province', 'Shandong Plain', 'Henan Region'
    [id |-> "north-china",
     name |-> <<78, 111, 114, 116, 104, 32, 67, 104, 105, 110, 97, 32, 80, 108, 97, 105, 110>>,
     country |-> <<67, 104, 105, 110, 97>>,
     position |-> [lat |-> 360, lon |-> 1160],
     subregions |-> <<<<72, 101, 98, 101, 105, 32, 80, 114, 111, 118, 105, 110, 99, 101>>,
                      <<83, 104, 97, 110, 100, 111, 110, 103, 32, 80, 108, 97, 105, 110>>,
                      <<72, 101, 110, 97, 110, 32, 82, 101, 103, 105, 111, 110>>>>,
     bbox |-> <<1120, 320, 1200, 400>>],
    \* 'Indus Valley', Pakistan: 'Punjab Pakistan', 'Sindh Province', 'Upper Indus'
    [id |-> "indus-valley",
     name |-> <<73, 110, 100, 117, 115, 32, 86, 97, 108, 108, 101, 121>>,
     country |-> <<80, 97, 107, 105, 115, 116, 97, 110>>,
     position |-> [lat |-> 290, lon |-> 710],
     subregions |-> <<<<80, 117, 110, 106, 97, 98, 32, 80, 97, 107, 105, 115, 116, 97, 110>>,
                      <<83, 105, 110, 100, 104, 32, 80, 114, 111, 118, 105, 110, 99, 101>>,
                      <<85, 112, 112, 101, 114, 32, 73, 110, 100, 117, 115>>>>,
     bbox |-> <<670, 240, 750, 340>>]
  >>

\* The regions whose marker or button is clicked, by position in the catalog
ClickedRegions == {1, 15}

\* The dates picked in the calendar
PickedDates == {DateOf(2025, 6, 1, 0), DateOf(2024, 1, 29, 0)}

\* The follow-up questions typed
Questions == {1, 2}

\* The most follow-up questions asked in one behaviour
MaxFollowUps == 2

\* The most ticks of the progress timer counted in one analysis
MaxTicks == 31

\* selectedRegion refers to an entry of the catalog, kept as its position in
\* regions; NoRegion is `undefined`.
NoRegion == 0

\* The body handleAnalyze posts with its bbox given as [minLat, minLon,
\* maxLat, maxLon]
AnalysisRequest_lat_first(selectedRegion, subregion, date) ==
    [region |-> selectedRegion.name, subregion |-> subregion,
     bbox |-> <<selectedRegion.bbox[2], selectedRegion.bbox[1],
                selectedRegion.bbox[4], selectedRegion.bbox[3]>>,
     date |-> date]

\* The body handleAnalyze posts to `${backendUrl}/analyze`
AnalysisRequest(selectedRegion, subregion, date) ==
    [region |-> selectedRegion.name, subregion |-> subregion,
     bbox |-> selectedRegion.bbox, date |-> date]

NoAnalysisData == [present |-> FALSE, region |-> <<>>, subregion |-> <<>>]

\* How an awaited fetch of handleAnalyze or handleFollowUpQuestion can settle
AnalyzeOutcomes == {"fetch_rejected", "http_error", "success_false", "success_true"}

\* The page as first rendered: nothing selected, today's date in the picker.
\* analyses and followUps hold the runs of handleAnalyze and of
\* handleFollowUpQuestion that await their fetch; ticks counts the callbacks
\* of the progress interval since it was set.
PageIdle ==
    [selectedRegion |-> NoRegion,
     selectedSubregion |-> <<>>,
     selectedDate |-> DateOf(2025, 6, 1, 0),
     isAnalyzing |-> FALSE,
     analyses |-> <<>>,
     analysisData |-> NoAnalysisData,
     isProcessingFollowUp |-> FALSE,
     followUps |-> <<>>,
     followUpResponses |-> <<>>,
     progress |-> 0,
     loadingStage |-> "searching",
     ticks |-> 0]

\* onRegionSelect(region) of a marker or button of the globe
handleRegionSelect(i) ==
    /\ i \in 1..Len(regions)
    /\ page' = [page EXCEPT !.selectedRegion = i,
                            !.analysisData = NoAnalysisData,
                            !.followUpResponses = <<>>]
    /\ UNCHANGED <<pc, req, trace, reply, resp, adj, fb, ext, demo>>

\* A subregion button of the selector card, shown for a selected region while
\* no analysis is running
SelectSubregion(k) ==
    /\ page.selectedRegion # NoRegion
    /\ ~page.isAnalyzing
    /\ k \in 1..Len(regions[page.selectedRegion].subregions)
    /\ page' = [page EXCEPT !.selectedSubregion = regions[page.selectedRegion].subregions[k]]
    /\ UNCHANGED <<pc, req, trace, reply, resp, adj, fb, ext, demo>>

\* onSelect of the calendar
SelectDate(date) ==
    /\ page.selectedRegion # NoRegion
    /\ ~page.isAnalyzing
    /\ page' = [page EXCEPT !.selectedDate = date]
    /\ UNCHANGED <<pc, req, trace, reply, resp, adj, fb, ext, demo>>

\* The Analyze button shown also while an analysis is running
StartAnalyze_card_shown ==
    /\ page.selectedRegion # NoRegion
    /\ page.selectedSubregion # <<>>
    /\ Len(page.analyses) < 2
    /\ page' = [page EXCEPT !.isAnalyzing = TRUE,
                            !.analyses = Append(@, AnalysisRequest(regions[page.selectedRegion],
                                                                   page.selectedSubregion,
                                                                   page.selectedDate)),
                            !.progress = 0,
                            !.loadingStage = "searching",
                            !.ticks = 0]
    /\ UNCHANGED <<pc, req, trace, reply, resp, adj, fb, ext, demo>>

\* The Analyze button (shown for a selected region while no analysis is
\* running, enabled once a subregion is chosen): RegionSelector.handleAnalyze
\* and Index.handleAnalyze up to the awaited fetch, and the effect on
\* isAnalyzing that sets the progress interval
StartAnalyze ==
    /\ page.selectedRegion # NoRegion
    /\ ~page.isAnalyzing
    /\ page.selectedSubregion # <<>>
    /\ page' = [page EXCEPT !.isAnalyzing = TRUE,
                            !.analyses = Append(@, AnalysisRequest(regions[page.selectedRegion],
                                                                   page.selectedSubregion,
                                                                   page.selectedDate)),
                            !.progress = 0,
                            !.loadingStage = "searching",
                            !.ticks = 0]
    /\ UNCHANGED <<pc, req, trace, reply, resp, adj, fb, ext, demo>>

\* The rest of Index.handleAnalyze once the fetch of run k has settled (the
\* reply of a successful analysis names the region and subregion of the
\* request), and the effect on isAnalyzing that clears the interval
SettleAnalyze(k, outcome) ==
    /\ k \in 1..Len(page.analyses)
    /\ page' = [page EXCEPT
                   !.analysisData =
                       IF outcome = "success_true"
                       THEN [present |-> TRUE, region |-> page.analyses[k].region,
                             subregion |-> page.analyses[k].subregion]
                       ELSE @,
                   !.analyses = SubSeq(@, 1, k - 1) \o SubSeq(@, k + 1, Len(@)),
                   !.isAnalyzing = FALSE,
                   !.progress = 0,
                   !.ticks = 0]
    /\ UNCHANGED <<pc, req, trace, reply, resp, adj, fb, ext, demo>>

\* The updater of setProgress stopping at 95
nextProgress_stops_at_95(prev) ==
    IF prev < 25 THEN [stage |-> "searching", progress |-> prev + 5]
    ELSE IF prev < 50 THEN [stage |-> "downloading", progress |-> prev + 4]
    ELSE IF prev < 75 THEN [stage |-> "processing", progress |-> prev + 3]
    ELSE IF prev < 95 THEN [stage |-> "analyzing", progress |-> prev + 2]
    ELSE [stage |-> "complete", progress |-> prev]

\* The updater passed to setProgress by the interval callback, with the stage
\* it sets
nextProgress(prev) ==
    IF prev < 25 THEN [stage |-> "searching", progress |-> prev + 5]
    ELSE IF prev < 50 THEN [stage |-> "downloading", progress |-> prev + 4]
    ELSE IF prev < 75 THEN [stage |-> "processing", progress |-> prev + 3]
    ELSE IF prev < 95 THEN [stage |-> "analyzing", progress |-> prev + 2]
    ELSE [stage |-> "complete", progress |-> 100]

\* One callback of the interval set while isAnalyzing
Tick ==
    /\ page.isAnalyzing
    /\ page.ticks < MaxTicks
    /\ page' = [page EXCEPT !.progress = nextProgress(page.progress).progress,
                            !.loadingStage = nextProgress(page.progress).stage,
                            !.ticks = @ + 1]
    /\ UNCHANGED <<pc, req, trace, reply, resp, adj, fb, ext, demo>>

\* The Ask Question button of the results card (shown while analysisData is
\* set, enabled while no follow-up is being processed):
\* AnalysisResults.handleSubmitQuestion and Index.handleFollowUpQuestion up
\* to the awaited fetch
AskFollowUp(question) ==
    /\ page.analysisData.present
    /\ ~page.isProcessingFollowUp
    /\ Len(page.followUps) + Len(page.followUpResponses) < MaxFollowUps
    /\ page' = [page EXCEPT
                   !.isProcessingFollowUp = TRUE,
                   !.followUps = Append(@, [question |-> question,
                                            region |-> page.analysisData.region,
                                            subregion |-> page.analysisData.subregion])]
    /\ UNCHANGED <<pc, req, trace, reply, resp, adj, fb, ext, demo>>

\* The rest of Index.handleFollowUpQuestion once the fetch of run k has
\* settled; the answer is kept as the question with the region and subregion
\* it was asked about
SettleFollowUp(k, outcome) ==
    /\ k \in 1..Len(page.followUps)
    /\ page' = [page EXCEPT
                   !.followUpResponses =
                       IF outcome = "success_true" THEN Append(@, page.followUps[k]) ELSE @,
                   !.followUps = SubSeq(@, 1, k - 1) \o SubSeq(@, k + 1, Len(@)),
                   !.isProcessingFollowUp = FALSE]
    /\ UNCHANGED <<pc, req, trace, reply, resp, adj, fb, ext, demo>>

\* No call of applyRegionalCharacteristics under way
AdjIdle ==
    [called |-> FALSE, baseMoisture |-> NaN, region |-> <<>>, subregion |-> <<>>,
     result |-> NaN]

-----------------------------------------------------------------------------
(* The serve handler                                                       *)

Conns == 1..NumConns

\* The request fields the handler destructures (bbox and date are passed on
\* unchanged, so only their validity is represented).  payloadEmpty tells
\* whether the granule that covers the bbox on the date holds no usable
\* reading: a fact about the data the request names, which the handler never
\* looks at.
NoReq == [method |-> "none", bodyOk |-> FALSE, bboxOk |-> FALSE, dateOk |-> FALSE,
          payloadEmpty |-> FALSE]

Requests ==
    {[method |-> "OPTIONS", bodyOk |-> FALSE, bboxOk |-> FALSE, dateOk |-> FALSE,
      payloadEmpty |-> FALSE],
     [method |-> "POST", bodyOk |-> FALSE, bboxOk |-> FALSE, dateOk |-> FALSE,
      payloadEmpty |-> FALSE]}
    \cup [method : {"POST"}, bodyOk : {TRUE}, bboxOk : BOOLEAN, dateOk : BOOLEAN,
          payloadEmpty : BOOLEAN]

\* What the awaited fetch / response handling can meet.
BackendReplyKinds == {"fetch_rejected", "http_error", "bad_json", "success_false", "success_true"}

NoResp == [sent |-> FALSE, status |-> 0, hasBody |-> FALSE, success |-> FALSE,
           keys |-> {}, cause |-> "none"]

CorsPreflightResponse ==
    [sent |-> TRUE, status |-> 200, hasBody |-> FALSE, success |-> FALSE,
     keys |-> {}, cause |-> "none"]

SuccessResponse ==
    [sent |-> TRUE, status |-> 200, hasBody |-> TRUE, success |-> TRUE,
     keys |-> {"success", "region", "subregion", "date", "soilMoisture",
               "interpretation", "tips", "aiContext"},
     cause |-> "none"]

ErrorResponse_no_status(cause) ==
    [sent |-> TRUE, status |-> 200, hasBody |-> TRUE, success |-> FALSE,
     keys |-> {"error", "success"}, cause |-> cause]

ErrorResponse(cause) ==
    [sent |-> TRUE, status |-> 500, hasBody |-> TRUE, success |-> FALSE,
     keys |-> {"error", "success"}, cause |-> cause]

\* The handler up to its first suspension point: the OPTIONS shortcut, the
\* body parse, and the start of the backend fetch.
Receive(c, r) ==
    /\ pc[c] = "idle"
    /\ req' = [req EXCEPT ![c] = r]
    /\ IF r.method = "OPTIONS"
       THEN /\ pc' = [pc EXCEPT ![c] = "done"]
            /\ trace' = [trace EXCEPT ![c] = <<>>]
            /\ resp' = [resp EXCEPT ![c] = CorsPreflightResponse]
       ELSE IF ~r.bodyOk
       THEN /\ pc' = [pc EXCEPT ![c] = "done"]
            /\ trace' = [trace EXCEPT ![c] = <<"parse", "catch">>]
            /\ resp' = [resp EXCEPT ![c] = ErrorResponse("body_parse")]
       ELSE /\ pc' = [pc EXCEPT ![c] = "fetching"]
            /\ trace' = [trace EXCEPT ![c] = <<"parse", "fetch">>]
            /\ resp' = [resp EXCEPT ![c] = NoResp]
    /\ UNCHANGED <<reply, adj, fb, ext, demo, page>>

\* The rest of the handler keeping the Response in a variable of the module
\* that every pending invocation returns.
BackendReply_shared(c, k) ==
    /\ pc[c] = "fetching"
    /\ pc' = [pc EXCEPT ![c] = "done"]
    /\ reply' = [reply EXCEPT ![c] = k]
    /\ LET response == IF k = "success_true" THEN SuccessResponse ELSE ErrorResponse(k)
       IN  /\ trace' = [trace EXCEPT ![c] = @ \o <<IF k = "success_true" THEN "respond"
                                                                        ELSE "catch">>]
           /\ resp' = [d \in Conns |-> IF pc[d] = "fetching" THEN response ELSE resp[d]]
    /\ UNCHANGED <<req, adj, fb, ext, demo, page>>

\* The rest of the handler, run when the awaited fetch settles.
BackendReply(c, k) ==
    /\ pc[c] = "fetching"
    /\ pc' = [pc EXCEPT ![c] = "done"]
    /\ reply' = [reply EXCEPT ![c] = k]
    /\ IF k = "success_true"
       THEN /\ trace' = [trace EXCEPT ![c] = @ \o <<"respond">>]
            /\ resp' = [resp EXCEPT ![c] = SuccessResponse]
       ELSE /\ trace' = [trace EXCEPT ![c] = @ \o <<"catch">>]
            /\ resp' = [resp EXCEPT ![c] = ErrorResponse(k)]
    /\ UNCHANGED <<req, adj, fb, ext, demo, page>>

\* The connection is closed and the slot serves the next request.
Close(c) ==
    /\ pc[c] = "done"
    /\ pc' = [pc EXCEPT ![c] = "idle"]
    /\ req' = [req EXCEPT ![c] = NoReq]
    /\ trace' = [trace EXCEPT ![c] = <<>>]
    /\ resp' = [resp EXCEPT ![c] = NoResp]
    /\ reply' = [reply EXCEPT ![c] = "none"]
    /\ UNCHANGED <<adj, fb, ext, demo, page>>

DoReceive == \E c \in Conns, r \in Requests : Receive(c, r)
DoBackendReply == \E c \in Conns, k \in BackendReplyKinds : BackendReply(c, k)
DoClose == \E c \in Conns : Close(c)

FbIdle == <<>>

\* No call of processHDF5File under way
ExtIdle ==
    [called |-> FALSE, prefix |-> 0, marker |-> FALSE, gap |-> 0, fill |-> 0,
     words |-> <<>>, tail |-> 0, bbox |-> NoBbox, reads |-> <<>>, result |-> NullResult]

\* getDemoAnalysis is not in use
DemoIdle == <<>>

\* The analysis page is not mounted
PageUnmounted == <<>>

\* The record of a call that has not returned yet
NoDemoRecord == [region |-> <<>>, subregion |-> <<>>]

Init ==
    /\ pc = [c \in Conns |-> "idle"]
    /\ req = [c \in Conns |-> NoReq]
    /\ trace = [c \in Conns |-> <<>>]
    /\ reply = [c \in Conns |-> "none"]
    /\ resp = [c \in Conns |-> NoResp]
    /\ adj = AdjIdle
    /\ fb = FbIdle
    /\ ext = ExtIdle
    /\ demo = DemoIdle
    /\ page = PageUnmounted

Next == DoReceive \/ DoBackendReply \/ DoClose

Spec == Init /\ [][Next]_vars

-----------------------------------------------------------------------------
(* applyRegionalCharacteristics applied to values, regions and subregions   *)

AdjustValues == {NaN} \cup {Num(k * 25000) : k \in (-4)..MaxValueSteps}

AdjustRegions ==
    {str_India, str_INDIA, str_California, str_California_USA, str_Thailand,
     str_Vietnam, str_Indonesia, str_Malaysia, str_Philippines, str_Brazil,
     str_Punjab, str_Thailand_India, str_India_California, str_Mekong_Delta_India,
     str_empty}

AdjustSubregions ==
    {str_Punjab, str_PUNJAB, str_Kerala, str_Ganges_Basin, str_Central_Valley,
     str_Southern_Coast, str_Bangkok, str_Chao_Phraya, str_West_Java,
     str_Central_Java, str_Northern_Luzon, str_Central_Luzon, str_Mato_Grosso,
     str_Punjab_Kerala, str_Central_Valley_Punjab, str_empty}

\* The arguments of one call are fixed at the start; Adjust performs the call.
AdjustInit ==
    /\ pc = [c \in Conns |-> "idle"]
    /\ req = [c \in Conns |-> NoReq]
    /\ trace = [c \in Conns |-> <<>>]
    /\ reply = [c \in Conns |-> "none"]
    /\ resp = [c \in Conns |-> NoResp]
    /\ adj \in [called : {FALSE}, baseMoisture : AdjustValues, region : AdjustRegions,
                 subregion : AdjustSubregions, result : {NaN}]
    /\ fb = FbIdle
    /\ ext = ExtIdle
    /\ demo = DemoIdle
    /\ page = PageUnmounted

Adjust ==
    /\ ~adj.called
    /\ adj' = [adj EXCEPT !.called = TRUE,
                          !.result = applyRegionalCharacteristics(adj.baseMoisture,
                                                                  adj.region, adj.subregion)]
    /\ UNCHANGED <<pc, req, trace, reply, resp, fb, ext, demo, page>>

AdjustNext == Adjust

AdjustSpec == AdjustInit /\ [][AdjustNext]_vars

-----------------------------------------------------------------------------
(* getRegionalSoilMoisture called repeatedly                                *)

FbAreas == {<<str_India, str_Punjab>>, <<str_California, str_Southern_Coast>>}

FbDates == {DateOf(2025, 6, 1, 0), DateOf(2026, 6, 1, 0), InvalidDate}

FbGranules ==
    {NoGranule, Granule(<<>>, <<>>), Granule(<<>>, str_G1), Granule(str_SMAP_L3, str_G1)}

CallFallback(area, date, granule) ==
    /\ Len(fb) < MaxCalls
    /\ fb' = Append(fb, [region |-> area[1], subregion |-> area[2], date |-> date,
                         granule |-> granule,
                         path |-> fallbackPath(granule),
                         seeds |-> fallbackSeeds(area[1], area[2], date, granule),
                         raised |-> FALSE,
                         result |-> getRegionalSoilMoisture(area[1], area[2], date, granule)])
    /\ UNCHANGED <<pc, req, trace, reply, resp, adj, ext, demo, page>>

DoCallFallback ==
    \E area \in FbAreas, date \in FbDates, granule \in FbGranules :
        CallFallback(area, date, granule)

FallbackNext == DoCallFallback

FallbackSpec == Init /\ [][FallbackNext]_vars

-----------------------------------------------------------------------------
(* getRegionalSoilMoisture called once, on many dates                       *)

SeedDates ==
    {DateOf(y, m, d, 0) : y \in 2024..2026, m \in 0..11, d \in {1, 15, 28}}
        \cup {DateOf(2024, 1, 29, 0), DateOf(2024, 11, 31, 0), DateOf(2025, 11, 31, 0),
              InvalidDate}

FirstCall(area, date, granule) ==
    /\ fb = <<>>
    /\ CallFallback(area, date, granule)

DoFirstCall ==
    \E area \in FbAreas, date \in SeedDates, granule \in FbGranules :
        FirstCall(area, date, granule)

SeedNext == DoFirstCall

SeedSpec == Init /\ [][SeedNext]_vars

-----------------------------------------------------------------------------
(* processHDF5File applied to buffers                                       *)
(* A buffer is laid out as: prefix bytes, the pattern "SMAP" (or not), gap  *)
(* bytes, a run of fill words that all hold 0.5, a list of 4-byte words,    *)
(* and 0..3 trailing bytes.                                                 *)

Bytes(n, b) == [i \in 1..n |-> b]

RECURSIVE Flatten(_)
Flatten(ws) == IF ws = <<>> THEN <<>> ELSE ws[1] \o Flatten(Tail(ws))

\* little-endian words: 0.5, 0.25, the largest float below 1, 1.0, -9999,
\* NaN, and the bytes "SMAP" themselves
Words ==
    {<<0, 0, 0, 63>>, <<0, 0, 128, 62>>, <<255, 255, 127, 63>>, <<0, 0, 128, 63>>,
     <<0, 60, 28, 198>>, <<0, 0, 192, 127>>, <<83, 77, 65, 80>>}

WordLists == UNION {[1..n -> Words] : n \in 0..MaxWords}

\* bytes between the pattern and the words: none, the 996 that put the words
\* at dataOffset, and 997 that put them one byte further
Gaps == {0, 996, 997}

Bboxes == {Bbox(73, 29, 76, 32), Bbox(76, 29, 73, 32), NoBbox}

\* n words that hold 0.5
HalfWords(n) == [i \in 1..(4 * n) |-> IF i % 4 = 0 THEN 63 ELSE 0]

\* the lengths of the run of 0.5 words that, with the words after it, put
\* fewer than, exactly and more than 1000 words past dataOffset
LongFills == {998, 999, 1000}

MakeBuffer(e) ==
    Bytes(e.prefix, 1) \o (IF e.marker THEN <<83, 77, 65, 80>> ELSE <<>>)
        \o Bytes(e.gap, 0) \o HalfWords(e.fill) \o Flatten(e.words) \o Bytes(e.tail, 0)

ExtractInit ==
    /\ pc = [c \in Conns |-> "idle"]
    /\ req = [c \in Conns |-> NoReq]
    /\ trace = [c \in Conns |-> <<>>]
    /\ reply = [c \in Conns |-> "none"]
    /\ resp = [c \in Conns |-> NoResp]
    /\ adj = AdjIdle
    /\ fb = FbIdle
    /\ ext \in [called : {FALSE}, prefix : 0..MaxPrefix, marker : {TRUE}, gap : Gaps,
                 fill : {0}, words : WordLists, tail : 0..3, bbox : Bboxes,
                 reads : {<<>>}, result : {NullResult}]
           \cup [called : {FALSE}, prefix : 0..MaxPrefix, marker : {FALSE}, gap : {0},
                  fill : {0}, words : WordLists, tail : 0..3, bbox : Bboxes,
                  reads : {<<>>}, result : {NullResult}]
           \cup [called : {FALSE}, prefix : 0..MaxPrefix, marker : {FALSE},
                  gap : Gaps \ {0}, fill : {0}, words : {ws \in WordLists : Len(ws) <= 1},
                  tail : 0..3, bbox : Bboxes, reads : {<<>>}, result : {NullResult}]
           \cup [called : {FALSE}, prefix : {0}, marker : {TRUE}, gap : {996},
                  fill : LongFills, words : {ws \in WordLists : Len(ws) <= 1},
                  tail : {0, 3}, bbox : {Bbox(73, 29, 76, 32)},
                  reads : {<<>>}, result : {NullResult}]
    /\ demo = DemoIdle
    /\ page = PageUnmounted

Extract ==
    /\ ~ext.called
    /\ ext' = [ext EXCEPT !.called = TRUE,
                          !.reads = float32Reads(MakeBuffer(ext)),
                          !.result = processHDF5File(MakeBuffer(ext), ext.bbox)]
    /\ UNCHANGED <<pc, req, trace, reply, resp, adj, fb, demo, page>>

ExtractNext == Extract

ExtractSpec == ExtractInit /\ [][ExtractNext]_vars

-----------------------------------------------------------------------------
(* getDemoAnalysis applied to regions, dates and random draws               *)

DemoRegions == {str_Punjab, str_California, str_Brazil, str_Australia, str_India, str_Kerala}

DemoDates == {DateOf(2025, m, 15, 0) : m \in 0..11} \cup {InvalidDate}

DemoInit ==
    /\ pc = [c \in Conns |-> "idle"]
    /\ req = [c \in Conns |-> NoReq]
    /\ trace = [c \in Conns |-> <<>>]
    /\ reply = [c \in Conns |-> "none"]
    /\ resp = [c \in Conns |-> NoResp]
    /\ adj = AdjIdle
    /\ fb = FbIdle
    /\ ext = ExtIdle
    /\ demo \in [called : {FALSE}, region : DemoRegions, subregion : {str_Punjab},
                  date : DemoDates, random : RandomDraws,
                  result : {NoDemoRecord}]
    /\ page = PageUnmounted

DemoAnalyze ==
    /\ ~demo.called
    /\ demo' = [demo EXCEPT !.called = TRUE,
                            !.result = getDemoAnalysis(demo.region, demo.subregion,
                                                       demo.date, demo.random)]
    /\ UNCHANGED <<pc, req, trace, reply, resp, adj, fb, ext, page>>

DemoNext == DemoAnalyze

DemoSpec == DemoInit /\ [][DemoNext]_vars

-----------------------------------------------------------------------------
(* The analysis page                                                        *)

DoRegionSelect == \E i \in ClickedRegions : handleRegionSelect(i)
DoSelectSubregion == \E k \in 1..2 : SelectSubregion(k)
DoSelectDate == \E date \in PickedDates : SelectDate(date)
DoSettleAnalyze == \E k \in 1..2, outcome \in AnalyzeOutcomes : SettleAnalyze(k, outcome)
DoAskFollowUp == \E question \in Questions : AskFollowUp(question)
DoSettleFollowUp == \E k \in 1..2, outcome \in AnalyzeOutcomes : SettleFollowUp(k, outcome)

\* The handlers of the page; the progress display is left at rest
PageNext ==
    \/ DoRegionSelect \/ DoSelectSubregion \/ DoSelectDate
    \/ StartAnalyze \/ DoSettleAnalyze
    \/ DoAskFollowUp \/ DoSettleFollowUp

PageInit ==
    /\ pc = [c \in Conns |-> "idle"]
    /\ req = [c \in Conns |-> NoReq]
    /\ trace = [c \in Conns |-> <<>>]
    /\ reply = [c \in Conns |-> "none"]
    /\ resp = [c \in Conns |-> NoResp]
    /\ adj = AdjIdle
    /\ fb = FbIdle
    /\ ext = ExtIdle
    /\ demo = DemoIdle
    /\ page = PageIdle

PageSpec == PageInit /\ [][PageNext]_vars

-----------------------------------------------------------------------------
(* The progress display of the region selector over successive analyses     *)

ProgressNext ==
    \/ DoRegionSelect \/ DoSelectSubregion \/ StartAnalyze \/ DoSettleAnalyze \/ Tick

ProgressSpec == PageInit /\ [][ProgressNext]_vars

-----------------------------------------------------------------------------
(* Properties of the serve handler                                         *)

Contains(seq, x) == \E i \in 1..Len(seq) : seq[i] = x

Is2xx(status) == status >= 200 /\ status <= 299

\* A POST request whose body parsed but whose bbox or date is not valid.
InvalidInput(r) == r.method = "POST" /\ r.bodyOk /\ ~(r.bboxOk /\ r.dateOk)

\* The failure causes that count as an explicit InvalidInput failure: a
\* validation failure, or (read generously) a body that is not JSON.
InvalidInputCauses == {"invalid_input", "body_parse"}

NetworkFailures == {"fetch_rejected", "http_error"}

\* C1: every POST request that has been answered got either a successful
\* record or an explicit InvalidInput failure; no failure of the network
\* stage is handed to the caller as a failed response.
C1_OnlyInvalidInputFails ==
    \A c \in Conns :
        (req[c].method = "POST" /\ resp[c].sent) =>
            (resp[c].success \/ resp[c].cause \in InvalidInputCauses)

\* C2: when the backend/catalog fetch fails (rejected, timed out, or HTTP
\* error status) the handler goes on to the fallback estimator and the
\* request completes with a successful record.
C2_FetchFailureFallsBack ==
    \A c \in Conns :
        (pc[c] = "done" /\ reply[c] \in NetworkFailures) =>
            (Contains(trace[c], "fallback") /\ resp[c].success)

\* C3: a request whose bbox or date fails validation makes no network call
\* and is answered with a failed response of kind InvalidInput; no other
\* error kind produces a failed response.
C3_InvalidInputRejectedLocally ==
    \A c \in Conns :
        /\ InvalidInput(req[c]) =>
              /\ ~Contains(trace[c], "fetch")
              /\ ~Contains(trace[c], "fallback")
              /\ resp[c].sent => (~resp[c].success /\ resp[c].cause = "invalid_input")
        /\ (req[c].method = "POST" /\ resp[c].sent /\ ~resp[c].success) =>
              resp[c].cause \in InvalidInputCauses

SnakeCaseSuccessKeys ==
    {"success", "region", "subregion", "date", "soil_moisture",
     "interpretation", "tips", "ai_context"}

CamelCaseSuccessKeys ==
    {"success", "region", "subregion", "date", "soilMoisture",
     "interpretation", "tips", "aiContext"}

FailureKeys == {"success", "error"}

ShapeOk(r, successKeys) ==
    \/ r.success /\ r.hasBody /\ r.keys = successKeys /\ Is2xx(r.status)
    \/ ~r.success /\ r.hasBody /\ r.keys = FailureKeys /\ ~Is2xx(r.status)

EmptyExtractionCase(r) ==
    r.method = "POST" /\ r.bodyOk /\ r.bboxOk /\ r.dateOk /\ r.payloadEmpty

\* The stage "fallback" comes right after the stage "extract" in the trace.
FallbackFollowsExtraction(t) ==
    \E i \in 1..(Len(t) - 1) : t[i] = "extract" /\ t[i + 1] = "fallback"

\* C11: a request whose granule was located (no failure of the network stage)
\* and whose extraction yields the empty result is not failed: the fallback
\* estimator is invoked right after the extraction and the request ends with a
\* successful record that tells the source of its value.
C11_EmptyExtractionFallsBack ==
    \A c \in Conns :
        (pc[c] = "done" /\ EmptyExtractionCase(req[c]) /\ reply[c] \notin NetworkFailures) =>
            /\ FallbackFollowsExtraction(trace[c])
            /\ resp[c].success
            /\ "source" \in resp[c].keys

\* The Response a request gets when it is the only one served.
ResponseAlone(state, r, k) ==
    IF state = "idle" THEN NoResp
    ELSE IF r.method = "OPTIONS" THEN CorsPreflightResponse
    ELSE IF ~r.bodyOk THEN ErrorResponse("body_parse")
    ELSE IF state = "fetching" THEN NoResp
    ELSE IF k = "success_true" THEN SuccessResponse
    ELSE ErrorResponse(k)

\* C18: whatever the interleaving of the requests served at the same time,
\* the response of each is the one it would get if it ran alone: it depends
\* on its own request and on how its own backend call settled, not on the
\* other requests.
C18_ResponsesIndependent ==
    \A c \in Conns : resp[c] = ResponseAlone(pc[c], req[c], reply[c])

\* C18 witness: two requests were in flight together, the first has been
\* answered with a failure while the second still waits for its backend call.
C18_Witness ==
    \E c \in Conns, d \in Conns :
        /\ c # d
        /\ pc[c] = "done" /\ reply[c] = "http_error" /\ ~resp[c].success
        /\ pc[d] = "fetching" /\ ~resp[d].sent

-----------------------------------------------------------------------------
(* Properties of getRegionalSoilMoisture and applyRegionalCharacteristics   *)

SameArguments(a, b) ==
    /\ a.region = b.region
    /\ a.subregion = b.subregion
    /\ a.date = b.date
    /\ a.granule = b.granule

InInterval(x, lo, hi) == ~x.nan /\ lo <= x.v /\ x.v <= hi

\* C6: the value returned by applyRegionalCharacteristics lies inside the
\* clamp interval of the rule that matched, for every input value, region and
\* subregion, and so is never below 0.05 nor above 0.5.
C6_WithinMatchedClamp ==
    adj.called =>
        LET rule == MatchedRule(adj.region, adj.subregion)
        IN  /\ InInterval(adj.result, rule.lo, rule.hi)
            /\ InInterval(adj.result, 50000, 500000)

\* clamp(value * m, lo, hi), m in hundredths
Clamp(value, pct, lo, hi) ==
    IF value.nan THEN NaN
    ELSE LET x == (value.v * pct) \div 100
         IN  IF x < lo THEN Num(lo) ELSE IF x > hi THEN Num(hi) ELSE Num(x)

\* The region names one of the areas whose rules are tested before California
\* and India.
NamesEarlierArea(regionLower) ==
    \E kw \in {kw_thailand, kw_central_thailand, kw_vietnam, kw_mekong_delta,
               kw_indonesia, kw_java_island, kw_malaysia, kw_peninsular_malaysia,
               kw_philippines, kw_luzon_island} : Includes(regionLower, kw)

ScenarioDates == {DateOf(y, m, d, 0) : y \in 2024..2026, m \in 0..11, d \in {1, 15, 28}}

ScenarioNoGranule == {NoGranule, Granule(<<>>, <<>>)}

\* The two fallback scenarios: (India, Punjab, 2025-07-01, no granule) and
\* (California, Southern Coast, any date, no granule).
FallbackScenarios ==
    /\ (adj.region = str_India /\ adj.subregion = str_Punjab) =>
          \A g \in ScenarioNoGranule :
              InInterval(getRegionalSoilMoisture(str_India, str_Punjab,
                                                 DateOf(2025, 6, 1, 0), g), 200000, 350000)
    /\ (adj.region = str_California /\ adj.subregion = str_Southern_Coast) =>
          \A g \in ScenarioNoGranule, date \in ScenarioDates :
              InInterval(getRegionalSoilMoisture(str_California, str_Southern_Coast, date, g),
                         80000, 250000)

\* C7 as stated: whenever the region contains 'india' and the subregion
\* 'punjab' the result is clamp(value*1.1, 0.2, 0.35); 'india'/'kerala' gives
\* clamp(value*1.3, 0.25, 0.45); 'california'/'central valley' gives
\* clamp(value*1.2, 0.15, 0.4); 'california'/'southern coast' gives
\* clamp(value*0.8, 0.08, 0.25); and the two fallback scenarios hold.
C7_AreaRulesByContainment ==
    adj.called =>
        LET r == ToLower(adj.region)
            s == ToLower(adj.subregion)
        IN  /\ (Includes(r, kw_india) /\ Includes(s, kw_punjab)) =>
                  adj.result = Clamp(adj.baseMoisture, 110, 200000, 350000)
            /\ (Includes(r, kw_india) /\ Includes(s, kw_kerala)) =>
                  adj.result = Clamp(adj.baseMoisture, 130, 250000, 450000)
            /\ (Includes(r, kw_california) /\ Includes(s, kw_central_valley)) =>
                  adj.result = Clamp(adj.baseMoisture, 120, 150000, 400000)
            /\ (Includes(r, kw_california) /\ Includes(s, kw_southern_coast)) =>
                  adj.result = Clamp(adj.baseMoisture, 80, 80000, 250000)
            /\ FallbackScenarios

\* C7 (amended): each of the four rules gives the stated clamp when no rule
\* tested earlier matches: the region names none of the areas tested before
\* California, the California rules come before the India rules, Central
\* Valley before Southern Coast, and Punjab before Kerala.  The two fallback
\* scenarios hold.
C7_AreaRulesFirstMatch ==
    adj.called =>
        LET r == ToLower(adj.region)
            s == ToLower(adj.subregion)
            cv == Includes(r, kw_california) /\ Includes(s, kw_central_valley)
            sc == Includes(r, kw_california) /\ Includes(s, kw_southern_coast)
            pj == Includes(r, kw_india) /\ Includes(s, kw_punjab)
            kl == Includes(r, kw_india) /\ Includes(s, kw_kerala)
        IN  /\ (~NamesEarlierArea(r) /\ cv) =>
                  adj.result = Clamp(adj.baseMoisture, 120, 150000, 400000)
            /\ (~NamesEarlierArea(r) /\ ~cv /\ sc) =>
                  adj.result = Clamp(adj.baseMoisture, 80, 80000, 250000)
            /\ (~NamesEarlierArea(r) /\ ~cv /\ ~sc /\ pj) =>
                  adj.result = Clamp(adj.baseMoisture, 110, 200000, 350000)
            /\ (~NamesEarlierArea(r) /\ ~cv /\ ~sc /\ ~pj /\ kl) =>
                  adj.result = Clamp(adj.baseMoisture, 130, 250000, 450000)
            /\ FallbackScenarios

\* C7 witness: the Punjab rule was applied to a value that the clamp left
\* strictly inside [0.2, 0.35], so the multiplier 1.1 shows in the result.
C7_Witness ==
    /\ adj.called
    /\ adj.region = str_India
    /\ adj.subregion = str_Punjab
    /\ ~adj.result.nan
    /\ adj.result.v > 200000
    /\ adj.result.v < 350000
    /\ adj.result.v # adj.baseMoisture.v

-----------------------------------------------------------------------------
(* Properties of the seeds and of the paths of getRegionalSoilMoisture      *)

\* The same month and day one year later.
YearLater(date) == DateOf(date.y + 1, date.m, date.d, date.ms)

\* The dates that have the same month and day in the next year.
YearPairStarts == {date \in SeedDates : date.valid /\ ~(date.m = 1 /\ date.d = 29)}

\* Both calls computed their seeds, and dateSeed and combinedSeed differ.
SeedsDiffer(a, b) ==
    /\ a.computed /\ ~a.nan
    /\ b.computed /\ ~b.nan
    /\ a.dateSeed # b.dateSeed
    /\ a.combinedSeedFifths # b.combinedSeedFifths

\* C12: for the region, subregion and granule (identifier or absent granule)
\* of a call, moving the date to the same month and day one year later
\* changes dateSeed and combinedSeed for at least 95% of the date pairs.
C12_DateChangesSeeds ==
    \A i \in 1..Len(fb) :
        LET differing ==
                {date \in YearPairStarts :
                    SeedsDiffer(fallbackSeeds(fb[i].region, fb[i].subregion, date,
                                              fb[i].granule),
                                fallbackSeeds(fb[i].region, fb[i].subregion,
                                              YearLater(date), fb[i].granule))}
        IN  100 * Cardinality(differing) >= 95 * Cardinality(YearPairStarts)

\* No granule is available: the granule is absent, or has no identifier.
NoGranuleAvailable(granule) == ~granule.present \/ granuleId(granule) = <<>>

\* C13: when no granule is available (absent granule or empty identifier) the
\* estimate is computed by the seed formula with granuleSeed = 0: the result
\* is the one of a granule whose identifier is the empty string, and other
\* dates give other results.
C13_NoGranuleUsesSeedFormula ==
    \A i \in 1..Len(fb) :
        (fb[i].date.valid /\ NoGranuleAvailable(fb[i].granule)) =>
            /\ fb[i].path = "try"
            /\ fb[i].seeds.computed
            /\ fb[i].seeds.granuleSeed = 0
            /\ fb[i].result = getRegionalSoilMoisture(fb[i].region, fb[i].subregion,
                                                      fb[i].date, Granule(<<>>, <<>>))
            /\ \E date \in SeedDates :
                   /\ date.valid
                   /\ getRegionalSoilMoisture(fb[i].region, fb[i].subregion, date,
                                              fb[i].granule) # fb[i].result

\* C14: when the date cannot be parsed the call does not raise and returns a
\* number inside the clamp interval of the rule matched by its region and
\* subregion (the last-resort value passed through the adjuster).
C14_LastResortInsideClamp ==
    \A i \in 1..Len(fb) :
        ~fb[i].date.valid =>
            LET rule == MatchedRule(fb[i].region, fb[i].subregion)
            IN  /\ ~fb[i].raised
                /\ InInterval(fb[i].result, rule.lo, rule.hi)

\* Sum of the character codes of a string, taken position by position.
SumOfCodes(str) ==
    LET partial[n \in 0..Len(str)] == IF n = 0 THEN 0 ELSE partial[n - 1] + str[n]
    IN  partial[Len(str)]

\* The identifier of a granule: producer_granule_id, else id, else empty.
IdentifierOf(granule) ==
    IF Len(granule.producer_granule_id) > 0 THEN granule.producer_granule_id
    ELSE granule.id

\* Ordinal day of a date within its year (1 for the first of January).
OrdinalDay(date) ==
    LET before == <<0, 31, 59, 90, 120, 151, 181, 212, 243, 273, 304, 334>>
        leapDay == IF date.m >= 2 /\ date.y % 4 = 0 /\ (date.y % 100 # 0 \/ date.y % 400 = 0)
                   THEN 1 ELSE 0
    IN  before[date.m + 1] + leapDay + date.d

\* C19: for a parseable date the seeds of a call are the character-code sum
\* of the granule identifier, (year*31 + monthIndex*47 + dayOfMonth*13 +
\* dayOfYear) mod 10000 with a zero-based month and the ordinal day of the
\* year, the character-code sum of the lower-cased "region-subregion", and
\* combinedSeed = (granuleSeed*0.2 + dateSeed*0.6 + regionSeed*0.2) mod 10000
\* (kept times five), which is >= 0 and < 10000, so that the base
\* (combinedSeed/10000)*0.4 + 0.05 lies in [0.05, 0.45].
C19_SeedFormulas ==
    \A i \in 1..Len(fb) :
        (fb[i].date.valid /\ fb[i].seeds.computed) =>
            LET date == fb[i].date
                sd == fb[i].seeds
            IN  /\ ~sd.nan
                /\ sd.granuleSeed = SumOfCodes(IdentifierOf(fb[i].granule))
                /\ sd.dateSeed = (date.y * 31 + date.m * 47 + date.d * 13 + OrdinalDay(date)) % 10000
                /\ sd.regionSeed =
                       SumOfCodes(ToLower(fb[i].region \o <<45>> \o fb[i].subregion))
                /\ sd.combinedSeedFifths =
                       (sd.granuleSeed + 3 * sd.dateSeed + sd.regionSeed) % 50000
                /\ sd.combinedSeedFifths >= 0 /\ sd.combinedSeedFifths < 50000
                /\ sd.baseMoisture = 8 * sd.combinedSeedFifths + 50000
                /\ sd.baseMoisture >= 50000 /\ sd.baseMoisture <= 450000

\* C19 witness: a call on a date after February of a leap year with a granule
\* that has an identifier.
C19_Witness ==
    /\ Len(fb) = 1
    /\ fb[1].date = DateOf(2024, 2, 1, 0)
    /\ fb[1].seeds.computed
    /\ fb[1].seeds.granuleSeed > 0
    /\ fb[1].seeds.dateSeed = (2024 * 31 + 2 * 47 + 13 + 61) % 10000

-----------------------------------------------------------------------------
(* Properties of the assembled demo record                                  *)

\* The five bands, in order, with the boundaries 0.15, 0.25, 0.35 and 0.45.
BandOf(moisture) ==
    IF moisture.v < 150000 THEN "critical-low"
    ELSE IF moisture.v < 250000 THEN "below-optimal"
    ELSE IF moisture.v < 350000 THEN "normal"
    ELSE IF moisture.v < 450000 THEN "above-average"
    ELSE "very-high"

\* The band an interpretation sentence speaks of.
BandOfSentence(sentence) ==
    CASE sentence.wording = "is critically low" -> "critical-low"
      [] sentence.wording = "is below optimal levels" -> "below-optimal"
      [] sentence.wording = "is within normal range" -> "normal"
      [] sentence.wording = "is above average" -> "above-average"
      [] sentence.wording = "is very high" -> "very-high"

\* The band a list of tips belongs to, told by its first entry.
BandOfTips(tips) ==
    CASE tips[1] = "Implement emergency irrigation protocols" -> "critical-low"
      [] tips[1] = "Schedule supplemental irrigation" -> "below-optimal"
      [] tips[1] = "Optimal conditions for planting" -> "normal"
      [] tips[1] = "Excellent growing conditions" -> "above-average"
      [] tips[1] = "Monitor for drainage issues" -> "very-high"

\* One value inside each band.
BandSamples == {Num(100000), Num(200000), Num(300000), Num(400000), Num(500000)}

\* C15: the moisture value of a record falls in exactly one of the five bands
\* bounded by 0.15, 0.25, 0.35 and 0.45; its interpretation sentence and its
\* tips are those of that band, and the tips list of every band has between
\* three and five entries.
C15_BandsAgree ==
    demo.called =>
        LET r == demo.result
        IN  /\ ~r.soilMoisture.nan
            /\ BandOfSentence(r.interpretation) = BandOf(r.soilMoisture)
            /\ BandOfTips(r.tips) = BandOf(r.soilMoisture)
            /\ \A v \in BandSamples :
                   /\ Len(getTips(v, r.region)) \in 3..5
                   /\ BandOfTips(getTips(v, r.region)) = BandOf(v)
                   /\ BandOfSentence(getInterpretation(v, r.region)) = BandOf(v)

\* C15 witness: a record whose value is exactly the boundary 0.25, which
\* belongs to the band 'normal'.
C15_Witness ==
    /\ demo.called
    /\ demo.result.soilMoisture = Num(250000)
    /\ BandOfTips(demo.result.tips) = "normal"

RolesInOrder(context) ==
    /\ Len(context) = 3
    /\ context[1].role = "system"
    /\ context[2].role = "user"
    /\ context[3].role = "assistant"

\* The messages whose content quotes a number.
QuotingMessages(context) == {k \in 1..Len(context) : "pct" \in DOMAIN context[k]}

\* C16 as stated: aiContext has exactly three messages with the roles system,
\* user, assistant in this order, and the number a message quotes is the
\* record's soilMoisture (a percentage of p tenths is the value p / 1000).
C16_ContextQuotesSoilMoisture ==
    demo.called =>
        LET r == demo.result
        IN  /\ RolesInOrder(r.aiContext)
            /\ QuotingMessages(r.aiContext) # {}
            /\ \A k \in QuotingMessages(r.aiContext) :
                   r.aiContext[k].pct * 1000 = r.soilMoisture.v

\* C16 (amended): aiContext has exactly three messages with the roles system,
\* user, assistant in this order; the system and the assistant message quote
\* the record's soilMoisture as a percentage rounded to one decimal place
\* (so within 0.0005 of soilMoisture), the user message quotes no number, and
\* the assistant message ends with the record's interpretation.
C16_ContextQuotesRoundedPercent ==
    demo.called =>
        LET r == demo.result
        IN  /\ RolesInOrder(r.aiContext)
            /\ QuotingMessages(r.aiContext) = {1, 3}
            /\ \A k \in QuotingMessages(r.aiContext) :
                   /\ r.aiContext[k].pct * 1000 - 500 <= r.soilMoisture.v
                   /\ r.soilMoisture.v < r.aiContext[k].pct * 1000 + 500
            /\ r.aiContext[3].sentence = r.interpretation

\* C16 witness: a record whose soilMoisture has more than three decimals, so
\* that the percentage quoted is a rounded one, here rounded up.
C16_Witness ==
    /\ demo.called
    /\ demo.result.soilMoisture.v % 1000 >= 500
    /\ demo.result.aiContext[1].pct * 1000 > demo.result.soilMoisture.v
    /\ demo.result.aiContext[3].pct = demo.result.aiContext[1].pct

-----------------------------------------------------------------------------
(* Properties of the region catalog                                         *)

\* minLon < maxLon and minLat < maxLat
ValidBbox(bbox) == bbox[1] < bbox[3] /\ bbox[2] < bbox[4]

\* C17: no two regions of the catalog share an id, every region's bbox has
\* minLon < maxLon and minLat < maxLat, the selected region is always one of
\* the catalog's entries, and every analysis request built from a catalog
\* entry, the one in flight included, carries that entry's name and bbox,
\* which is a valid bbox.
C17_CatalogFixedAndValid ==
    /\ \A i \in 1..Len(regions), j \in 1..Len(regions) :
           i # j => regions[i].id # regions[j].id
    /\ \A i \in 1..Len(regions) : ValidBbox(regions[i].bbox)
    /\ \A i \in 1..Len(regions) :
           \A k \in 1..Len(regions[i].subregions) :
               ValidBbox(AnalysisRequest(regions[i], regions[i].subregions[k],
                                         page.selectedDate).bbox)
    /\ page.selectedRegion \in 0..Len(regions)
    /\ \A k \in 1..Len(page.analyses) :
           /\ ValidBbox(page.analyses[k].bbox)
           /\ \E i \in 1..Len(regions) :
                  /\ page.analyses[k].region = regions[i].name
                  /\ page.analyses[k].bbox = regions[i].bbox

\* C17 witness: a request built from the last catalog entry is in flight
\* after another region has been selected in the meantime.
C17_Witness ==
    /\ Len(page.analyses) = 1
    /\ page.analyses[1].bbox = regions[15].bbox
    /\ page.selectedRegion # NoRegion
    /\ regions[page.selectedRegion].id = "punjab"

-----------------------------------------------------------------------------
(* Properties of processHDF5File                                            *)

\* The buffer contains the byte sequence 0x53 0x4D 0x41 0x50 somewhere.
ContainsMarker(buffer) ==
    \E i \in 1..(Len(buffer) - 3) :
        <<buffer[i], buffer[i + 1], buffer[i + 2], buffer[i + 3]>> = <<83, 77, 65, 80>>

\* The least element of a non-empty set of integers.
SetMin(S) == CHOOSE x \in S : \A y \in S : x <= y

\* Zero-based offset of the first occurrence of the byte sequence.
FirstMarker(buffer) ==
    SetMin({i \in 1..(Len(buffer) - 3) :
        <<buffer[i], buffer[i + 1], buffer[i + 2], buffer[i + 3]>> = <<83, 77, 65, 80>>}) - 1

\* A single-precision value strictly between 0 and 1: positive sign, not
\* zero, and a biased exponent below that of 1.0.
InOpenUnitInterval(f) ==
    /\ f.sign = 0
    /\ f.exp <= 126
    /\ (f.exp > 0 \/ f.mant > 0)
    /\ F32Micro(f) < 1000000

\* The bit pattern of -9999 (0xC61C3C00).
IsFillValue(f) == <<f.sign, f.exp, f.mant>> = <<1, 140, 1850368>>

\* C8: every sample in the list returned by processHDF5File differs from the
\* fill value -9999 and is strictly between 0 and 1.
C8_SamplesValid ==
    ext.called =>
        \A k \in 1..Len(ext.result.validValues) :
            /\ ~IsFillValue(ext.result.validValues[k])
            /\ InOpenUnitInterval(ext.result.validValues[k])

\* C8 witness: a buffer whose data section holds two words, of which exactly
\* one was returned.
C8_Witness ==
    /\ ext.called
    /\ ext.marker
    /\ ext.gap = 996
    /\ Len(ext.words) = 2
    /\ ~ext.result.isNull
    /\ Len(ext.result.validValues) = 1

\* C9: for a buffer of any length that does not contain the marker bytes,
\* processHDF5File returns the empty result and does not raise.
C9_NoMarkerEmpty ==
    (ext.called /\ ~ContainsMarker(MakeBuffer(ext))) =>
        /\ ~ext.result.raised
        /\ ext.result.isNull
        /\ Len(ext.result.validValues) = 0

\* C9 witness: a buffer of one to three bytes was processed.
C9_Witness ==
    /\ ext.called
    /\ Len(MakeBuffer(ext)) \in 1..3
    /\ ~ContainsMarker(MakeBuffer(ext))
    /\ ext.result.isNull

\* C10: processHDF5File never raises; a marker followed by fewer than 1004
\* bytes gives the empty result, and a result is non-empty only if it carries
\* at least one accepted value.
C10_NeverRaises ==
    ext.called =>
        LET buffer == MakeBuffer(ext)
        IN  /\ ~ext.result.raised
            /\ (ContainsMarker(buffer) /\ Len(buffer) - FirstMarker(buffer) < 1004) =>
                   ext.result.isNull
            /\ ext.result.isNull <=> Len(ext.result.validValues) = 0

\* C10 witness: the marker is followed by words that lie before dataOffset,
\* and a buffer with a full header whose words are all rejected.
C10_Witness ==
    /\ ext.called
    /\ ext.marker
    /\ ext.result.isNull
    /\ Len(ext.words) >= 1
    /\ \/ ext.gap = 0
       \/ ext.gap = 996 /\ ext.bbox.present

\* C20: when the marker occurs in the buffer, the values decoded are exactly
\* the 4-byte little-endian values at the offsets m + 1000 + 4*i for
\* 0 <= i < min(1000, floor((len - (m + 1000)) / 4)), m being the offset of
\* the first occurrence of the marker; no read touches a byte at or beyond
\* the end of the buffer, and at most 1000 samples are returned, each one the
\* value at one of these offsets.
C20_CandidateOffsets ==
    (ext.called /\ ContainsMarker(MakeBuffer(ext))) =>
        LET buffer == MakeBuffer(ext)
            m == FirstMarker(buffer)
            count == Min(1000, (Len(buffer) - (m + 1000)) \div 4)
            expected == [k \in 1..Max(count, 0) |-> m + 1000 + 4 * (k - 1)]
        IN  /\ ext.reads = expected
            /\ \A k \in 1..Len(ext.reads) :
                   ext.reads[k] >= 0 /\ ext.reads[k] + 3 < Len(buffer)
            /\ Len(ext.result.validValues) <= 1000
            /\ Len(ext.result.validValues) <= Len(ext.reads)
            /\ \A j \in 1..Len(ext.result.validValues) :
                   \E k \in 1..Len(expected) :
                       ext.result.validValues[j] =
                           [sign |-> buffer[expected[k] + 4] \div 128,
                            exp  |-> (buffer[expected[k] + 4] % 128) * 2
                                         + buffer[expected[k] + 3] \div 128,
                            mant |-> (buffer[expected[k] + 3] % 128) * 65536
                                         + buffer[expected[k] + 2] * 256
                                         + buffer[expected[k] + 1]]

\* C20 witness: more than 1000 words follow dataOffset; 1000 of them were
\* decoded and returned.
C20_Witness ==
    /\ ext.called
    /\ ext.fill = 1000
    /\ Len(ext.words) = 1
    /\ Len(ext.reads) = 1000
    /\ Len(ext.result.validValues) = 1000

-----------------------------------------------------------------------------
(* Properties of the geographic filter and of the mean                      *)

\* The values read by the decoding loop that differ from -9999 and lie in
\* (0, 1), in buffer order
RangeTested(buffer, reads) ==
    LET kept == SelectSeq(reads,
                          LAMBDA offset : /\ ~IsFillValue(getFloat32(buffer, offset))
                                          /\ InOpenUnitInterval(getFloat32(buffer, offset)))
    IN  [k \in 1..Len(kept) |-> getFloat32(buffer, kept[k])]

\* The synthetic position of candidate i of n, times n: <<lat, lon>>
SyntheticPosition(bbox, i, n) ==
    <<bbox[2] * n + (bbox[4] - bbox[2]) * i, bbox[1] * n + (bbox[3] - bbox[1]) * i>>

\* (lat, lon), both times n, lies inside the bbox
InsideBbox(pos, bbox, n) ==
    /\ pos[1] >= bbox[2] * n /\ pos[1] <= bbox[4] * n
    /\ pos[2] >= bbox[1] * n /\ pos[2] <= bbox[3] * n

\* C21: the geographic filter is a no-op: for every bbox and every candidate
\* index i of n the synthetic position interpolated with t = i/n lies inside
\* the bbox, so the accepted values are the candidates that passed the
\* fill-value and (0, 1) range test.
C21_GeoFilterNoOp ==
    (ext.called /\ ext.bbox.present) =>
        LET buffer == MakeBuffer(ext)
        IN  /\ ext.result.validValues = RangeTested(buffer, ext.reads)
            /\ \A k \in 1..Len(ext.reads) :
                   InsideBbox(SyntheticPosition(ext.bbox.v, k - 1, Len(ext.reads)),
                              ext.bbox.v, Len(ext.reads))

\* The values the extractor is to accept: the range-tested candidates whose
\* synthetic position lies inside the bbox, in buffer order
Accepted(buffer, reads, bbox) ==
    LET n == Len(reads)
        kept == SelectSeq([k \in 1..n |-> k],
                          LAMBDA k : /\ ~IsFillValue(getFloat32(buffer, reads[k]))
                                     /\ InOpenUnitInterval(getFloat32(buffer, reads[k]))
                                     /\ bbox.present
                                     /\ InsideBbox(SyntheticPosition(bbox.v, k - 1, n),
                                                   bbox.v, n))
    IN  [j \in 1..Len(kept) |-> getFloat32(buffer, reads[kept[j]])]

RECURSIVE TotalOver(_, _)
\* The sum of the values of a list, each distinct value of the set S counted
\* as often as it occurs, in units of 10^-6
TotalOver(values, S) ==
    IF S = {} THEN 0
    ELSE LET x == CHOOSE y \in S : TRUE
         IN  F32Micro(x) * Cardinality({k \in 1..Len(values) : values[k] = x})
                 + TotalOver(values, S \ {x})

Total(values) == TotalOver(values, {values[k] : k \in 1..Len(values)})

\* C22: when at least one value is accepted the extractor returns the
\* arithmetic mean of exactly the accepted values (in units of 10^-6)
\* with the full accepted list in buffer order; the mean is strictly between
\* 0 and 1 and lies between the smallest and the largest accepted value.
\* When none is accepted it returns the empty result.
C22_MeanOfAccepted ==
    ext.called =>
        LET accepted == Accepted(MakeBuffer(ext), ext.reads, ext.bbox)
            n == Len(accepted)
            mean == ext.result.average
        IN  IF n = 0
            THEN ext.result.isNull /\ ext.result.validValues = <<>>
            ELSE /\ ~ext.result.isNull
                 /\ ext.result.validValues = accepted
                 /\ mean * n <= Total(accepted)
                 /\ Total(accepted) < (mean + 1) * n
                 /\ mean > 0 \/ ext.result.averageFrac
                 /\ mean < 1000000
                 /\ \E k \in 1..n : F32Micro(accepted[k]) <= mean
                 /\ \E k \in 1..n : mean <= F32Micro(accepted[k])

\* C22 witness: two different values were accepted; the mean lies strictly
\* between the two.
C22_Witness ==
    /\ ext.called
    /\ ~ext.result.isNull
    /\ Len(ext.result.validValues) = 2
    /\ ext.result.validValues[1] # ext.result.validValues[2]
    /\ \E k \in 1..2 : F32Micro(ext.result.validValues[k]) < ext.result.average
    /\ \E k \in 1..2 : ext.result.average < F32Micro(ext.result.validValues[k])

-----------------------------------------------------------------------------
(* Properties of rule matching in applyRegionalCharacteristics              *)

\* The region names the area, by any of its keywords
NamesArea(regionLower, keywords) == \E kw \in keywords : Includes(regionLower, kw)

\* The subregion is one of those the area's rules list
ListedSubregion(subregionLower, keywords) ==
    \E kw \in keywords : Includes(subregionLower, kw)

Thailand == {kw_thailand, kw_central_thailand}
Indonesia == {kw_indonesia, kw_java_island}
Philippines == {kw_philippines, kw_luzon_island}
VietnamOrMalaysia == {kw_vietnam, kw_mekong_delta, kw_malaysia, kw_peninsular_malaysia}

\* Some rule names both the region and the subregion (the rules of Vietnam
\* and Malaysia list no subregion and match on the region alone)
RuleListsPair(r, s) ==
    \/ NamesArea(r, Thailand) /\ ListedSubregion(s, {kw_bangkok, kw_chao_phraya})
    \/ NamesArea(r, VietnamOrMalaysia)
    \/ NamesArea(r, Indonesia) /\ ListedSubregion(s, {kw_west_java, kw_central_java})
    \/ NamesArea(r, Philippines) /\ ListedSubregion(s, {kw_northern_luzon, kw_central_luzon})
    \/ NamesArea(r, {kw_california}) /\ ListedSubregion(s, {kw_central_valley, kw_southern_coast})
    \/ NamesArea(r, {kw_india}) /\ ListedSubregion(s, {kw_punjab, kw_kerala, kw_ganges})

\* C23 as stated: if no rule matches the (region, subregion) pair the result
\* is clamp(value, 0.05, 0.45) with no multiplier; this includes a region
\* containing 'california' or 'india', and a region naming any other rule
\* area, with a subregion that the area's rules do not list.
C23_UnlistedPairGetsDefault ==
    adj.called =>
        (~RuleListsPair(ToLower(adj.region), ToLower(adj.subregion)) =>
            adj.result = Clamp(adj.baseMoisture, 100, 50000, 450000))

\* C23 (amended): the result is clamp(value, 0.05, 0.45) with no multiplier
\* if no rule matches; this includes a region containing 'california' or
\* 'india', and naming no other rule area, whose subregion matches none of
\* that region's listed subregions. A region naming Thailand, Indonesia or
\* the Philippines always matches a rule: with an unlisted subregion, and no
\* area earlier in the table named, it is that area's last rule,
\* clamp(value, 0.15, 0.35), clamp(value*0.9, 0.15, 0.35) and
\* clamp(value*0.95, 0.18, 0.38).
C23_NoRuleGetsDefault ==
    adj.called =>
        LET r == ToLower(adj.region)
            s == ToLower(adj.subregion)
            th == NamesArea(r, Thailand)
            vn == NamesArea(r, {kw_vietnam, kw_mekong_delta})
            id == NamesArea(r, Indonesia)
            my == NamesArea(r, {kw_malaysia, kw_peninsular_malaysia})
            ph == NamesArea(r, Philippines)
        IN  /\ (~RuleListsPair(r, s) /\ ~th /\ ~id /\ ~ph) =>
                  adj.result = Clamp(adj.baseMoisture, 100, 50000, 450000)
            /\ (th /\ ~ListedSubregion(s, {kw_bangkok, kw_chao_phraya})) =>
                  adj.result = Clamp(adj.baseMoisture, 100, 150000, 350000)
            /\ (~th /\ ~vn /\ id /\ ~ListedSubregion(s, {kw_west_java, kw_central_java})) =>
                  adj.result = Clamp(adj.baseMoisture, 90, 150000, 350000)
            /\ (~th /\ ~vn /\ ~id /\ ~my /\ ph
                    /\ ~ListedSubregion(s, {kw_northern_luzon, kw_central_luzon})) =>
                  adj.result = Clamp(adj.baseMoisture, 95, 180000, 380000)

\* C23 witness: India with a subregion that its rules do not list, and a
\* value above 0.45 that came back as 0.45.
C23_Witness ==
    /\ adj.called
    /\ adj.region = str_India
    /\ adj.subregion = str_Mato_Grosso
    /\ adj.baseMoisture.v > 450000
    /\ adj.result = Num(450000)

\* A string with its letters A-Z and a-z put in lower case, in upper case,
\* and each in the other case
LowerCased(s) == [i \in 1..Len(s) |-> IF s[i] \in 65..90 THEN s[i] + 32 ELSE s[i]]
UpperCased(s) == [i \in 1..Len(s) |-> IF s[i] \in 97..122 THEN s[i] - 32 ELSE s[i]]
CaseSwapped(s) ==
    [i \in 1..Len(s) |-> IF s[i] \in 65..90 THEN s[i] + 32
                         ELSE IF s[i] \in 97..122 THEN s[i] - 32 ELSE s[i]]

CaseVariants(s) == {s, LowerCased(s), UpperCased(s), CaseSwapped(s)}

\* The rule table in its order: the keywords of the area, the keywords of the
\* subregion (none: any subregion), the multiplier in hundredths and the
\* clamp interval
RuleTable ==
    <<[area |-> Thailand, sub |-> {kw_bangkok}, m |-> 110, lo |-> 150000, hi |-> 400000],
      [area |-> Thailand, sub |-> {kw_chao_phraya}, m |-> 120, lo |-> 200000, hi |-> 450000],
      [area |-> Thailand, sub |-> {}, m |-> 100, lo |-> 150000, hi |-> 350000],
      [area |-> {kw_vietnam, kw_mekong_delta}, sub |-> {}, m |-> 130, lo |-> 250000, hi |-> 500000],
      [area |-> Indonesia, sub |-> {kw_west_java}, m |-> 120, lo |-> 250000, hi |-> 450000],
      [area |-> Indonesia, sub |-> {kw_central_java}, m |-> 110, lo |-> 200000, hi |-> 400000],
      [area |-> Indonesia, sub |-> {}, m |-> 90, lo |-> 150000, hi |-> 350000],
      [area |-> {kw_malaysia, kw_peninsular_malaysia}, sub |-> {}, m |-> 130, lo |-> 250000, hi |-> 500000],
      [area |-> Philippines, sub |-> {kw_northern_luzon}, m |-> 110, lo |-> 200000, hi |-> 450000],
      [area |-> Philippines, sub |-> {kw_central_luzon}, m |-> 100, lo |-> 200000, hi |-> 400000],
      [area |-> Philippines, sub |-> {}, m |-> 95, lo |-> 180000, hi |-> 380000],
      [area |-> {kw_california}, sub |-> {kw_central_valley}, m |-> 120, lo |-> 150000, hi |-> 400000],
      [area |-> {kw_california}, sub |-> {kw_southern_coast}, m |-> 80, lo |-> 80000, hi |-> 250000],
      [area |-> {kw_india}, sub |-> {kw_punjab}, m |-> 110, lo |-> 200000, hi |-> 350000],
      [area |-> {kw_india}, sub |-> {kw_kerala}, m |-> 130, lo |-> 250000, hi |-> 450000],
      [area |-> {kw_india}, sub |-> {kw_ganges}, m |-> 100, lo |-> 150000, hi |-> 350000]>>

\* Row k of the table matches: the lower-cased region contains a keyword of
\* the area and the lower-cased subregion one of the row's keywords
RowMatches(k, region, subregion) ==
    /\ \E kw \in RuleTable[k].area : Includes(LowerCased(region), kw)
    /\ \/ RuleTable[k].sub = {}
       \/ \E kw \in RuleTable[k].sub : Includes(LowerCased(subregion), kw)

\* The areas (first rows of the table's areas) the region names
AreasNamed(region) ==
    {k \in {1, 4, 5, 8, 9, 12, 14} :
        \E kw \in RuleTable[k].area : Includes(LowerCased(region), kw)}

\* C24: matching is by case-insensitive substring containment and the first
\* matching rule in table order decides: the result is that of the first row
\* of the table that matches (the default clamp if none does), changing only
\* the letter case of region or subregion gives the same result, and so a
\* region that contains the names of two rule areas is handled by the first
\* row that matches.
C24_FirstMatchCaseInsensitive ==
    adj.called =>
        LET matching == {k \in 1..Len(RuleTable) : RowMatches(k, adj.region, adj.subregion)}
        IN  /\ IF matching = {}
               THEN adj.result = Clamp(adj.baseMoisture, 100, 50000, 450000)
               ELSE LET first == CHOOSE k \in matching : \A j \in matching : k <= j
                    IN  adj.result = Clamp(adj.baseMoisture, RuleTable[first].m,
                                           RuleTable[first].lo, RuleTable[first].hi)
            /\ \A region \in CaseVariants(adj.region), subregion \in CaseVariants(adj.subregion) :
                   applyRegionalCharacteristics(adj.baseMoisture, region, subregion) = adj.result

\* C24 witness: the region names two rule areas in mixed case, rows of both
\* match, and the value shows which row was applied.
C24_Witness ==
    /\ adj.called
    /\ Cardinality(AreasNamed(adj.region)) = 2
    /\ adj.region # LowerCased(adj.region)
    /\ RowMatches(3, adj.region, adj.subregion)
    /\ RowMatches(14, adj.region, adj.subregion)
    /\ adj.result = Num(150000)
    /\ adj.baseMoisture = Num(100000)

-----------------------------------------------------------------------------
(* Properties of the analysis page under interleaved handlers               *)

\* C25: whenever analysisData is set it belongs to the currently selected
\* region: a result that arrives after another region was selected is never
\* stored under the new selection.
C25_AnalysisOfSelectedRegion ==
    page.analysisData.present =>
        /\ page.selectedRegion # NoRegion
        /\ page.analysisData.region = regions[page.selectedRegion].name

\* The subregions of the catalog region with the given name
SubregionsOf(name) ==
    UNION {{regions[i].subregions[k] : k \in 1..Len(regions[i].subregions)} :
              i \in {j \in 1..Len(regions) : regions[j].name = name}}

\* C26: the subregion passed to onAnalyze is always one of the subregions of
\* the region selected at that moment, which is the region of the request
\* that handleAnalyze builds.
C26_SubregionOfSelectedRegion ==
    \A k \in 1..Len(page.analyses) :
        page.analyses[k].subregion \in SubregionsOf(page.analyses[k].region)

\* The outcomes of a request after which handleAnalyze throws
FailingOutcomes == AnalyzeOutcomes \ {"success_true"}

\* C27: isAnalyzing is true exactly while one analysis request is in flight
\* and at most one is in flight at any time; when a request settles, with any
\* outcome, isAnalyzing is false afterwards, and a failing outcome leaves the
\* stored analysisData unchanged.
C27_OneAnalysisInFlight ==
    /\ [](/\ Len(page.analyses) <= 1
          /\ page.isAnalyzing <=> Len(page.analyses) = 1)
    /\ [][/\ Len(page'.analyses) < Len(page.analyses) => ~page'.isAnalyzing
          /\ \A k \in 1..Len(page.analyses), outcome \in FailingOutcomes :
                 SettleAnalyze(k, outcome) => page'.analysisData = page.analysisData
          /\ (~page.isAnalyzing /\ page'.isAnalyzing) =>
                 Len(page'.analyses) = Len(page.analyses) + 1]_vars

\* C27 witness: an analysis is in flight while the result of an earlier one
\* is stored.
C27_Witness ==
    /\ page.isAnalyzing
    /\ Len(page.analyses) = 1
    /\ page.analysisData.present

\* C28: followUpResponses only holds answers to questions asked about the
\* analysis on display: every entry was asked about the region and subregion
\* of the current analysisData, the list is empty when no analysis is
\* stored, it grows only by one entry at a time, a failed follow-up leaves
\* it unchanged, and no answer to a question asked before a region change is
\* appended after handleRegionSelect cleared the list.
C28_AnswersOfDisplayedAnalysis ==
    /\ [](/\ ~page.analysisData.present => page.followUpResponses = <<>>
          /\ \A j \in 1..Len(page.followUpResponses) :
                 /\ page.followUpResponses[j].region = page.analysisData.region
                 /\ page.followUpResponses[j].subregion = page.analysisData.subregion)
    /\ [][/\ Len(page'.followUpResponses) <= Len(page.followUpResponses) + 1
          /\ Len(page'.followUpResponses) = Len(page.followUpResponses) + 1 =>
                 SubSeq(page'.followUpResponses, 1, Len(page.followUpResponses))
                     = page.followUpResponses
          /\ \A k \in 1..Len(page.followUps), outcome \in FailingOutcomes :
                 SettleFollowUp(k, outcome) =>
                     page'.followUpResponses = page.followUpResponses]_vars

-----------------------------------------------------------------------------
(* Properties of the progress display                                       *)

\* The place of a stage in the order searching, downloading, processing,
\* analyzing, complete
StageRank(stage) ==
    CASE stage = "searching" -> 1
      [] stage = "downloading" -> 2
      [] stage = "processing" -> 3
      [] stage = "analyzing" -> 4
      [] stage = "complete" -> 5

-----------------------------------------------------------------------------
(* Properties of the page's requests under the climate rules                *)

\* The rule of the area of catalog entry i (Punjab, Kerala, Ganges Basin,
\* Central Valley, Southern Coast): multiplier in hundredths and clamp
AreaRule(i) ==
    CASE i = 1 -> [m |-> 110, lo |-> 200000, hi |-> 350000]
      [] i = 2 -> [m |-> 130, lo |-> 250000, hi |-> 450000]
      [] i = 3 -> [m |-> 100, lo |-> 150000, hi |-> 350000]
      [] i = 4 -> [m |-> 120, lo |-> 150000, hi |-> 400000]
      [] i = 5 -> [m |-> 80, lo |-> 80000, hi |-> 250000]

\* C30: for each catalog region that has an area-specific climate rule, the
\* request built by handleAnalyze from the catalog entry and any of its
\* subregions carries region and subregion strings for which
\* applyRegionalCharacteristics applies that area's rule, for every value.
C30_RequestsSelectAreaRule ==
    \A k \in 1..Len(page.analyses) :
        \A i \in 1..5 :
            (/\ page.analyses[k].region = regions[i].name
             /\ page.analyses[k].subregion \in SubregionsOf(regions[i].name)) =>
                \A value \in AdjustValues :
                    applyRegionalCharacteristics(value, page.analyses[k].region,
                                                 page.analyses[k].subregion)
                        = Clamp(value, AreaRule(i).m, AreaRule(i).lo, AreaRule(i).hi)

====
